---- MODULE Spec2Model ----
(***************************************************************************)
(* Transport manager of serial-mate (App in app.go): one connection at a   *)
(* time over serial / TCP client / TCP server / UDP / J-Link RTT, the      *)
(* background read tasks each Open* starts, Close and SendData.            *)
(*                                                                         *)
(* Every method of App runs under a.mutex; the read tasks run outside it   *)
(* and read a.isConnected and a.readStopChan without it, so each task is   *)
(* modelled statement by statement and Close in its three phases.          *)
(*                                                                         *)
(* The J-Link wrapper behind TypeJLink (JLinkWrapper in pkg/jlink) is      *)
(* modelled on its own: the software RTT poll (SpecRTT), the control-block *)
(* scan (SpecScan) and NewJLinkWrapper / Connect (SpecConnect). In Spec    *)
(* the wrapper is what OpenJLink makes of it: native or soft.              *)
(***************************************************************************)
EXTENDS Integers, FiniteSets, Sequences, TLC

\* ---- bounds ----
MaxConns == 2     \* connections (port, socket, listener, wrapper) ever opened
MaxPeers == 2     \* connections ever accepted by a listener
MaxResources == 4 \* resources (opened and accepted) ever created in all
MaxAddr  == 1     \* distinct UDP endpoints
UintBits == 4     \* width of the wrapper's unsigned words (uint32 in the source)
MaxWrite == 2     \* longest payload handed to WriteRTT
MaxReinit == 1    \* calls of ReinitSoftRTT on one wrapper
MaxParts == 2     \* components of a version string
MaxDigits == 2    \* digits of a component
IntBits == 5      \* width of int (64 bits in the source)
maxRTTReadSize == 4   \* most bytes one poll returns (64 KiB in the source,
                      \* scaled with the word: 2^16 of 2^32 there, 4 of 16 here)

MaxHandles == MaxConns + MaxPeers
Handles == 1..MaxHandles
Addrs   == 1..MaxAddr

\* ---- ConnectionType ----
TypeSerial    == "SERIAL"
TypeTcpClient == "TCP_CLIENT"
TypeTcpServer == "TCP_SERVER"
TypeUdp       == "UDP"
TypeJLink     == "JLINK"

VARIABLES
    \* fields of App
    isConnected, connType, readStopChan,
    serialPort, netConn, netListener, udpConn, udpRemote, jlinkConn,
    mutex,        \* 0 free, -1 held by a caller of the API, h held by task h
    closePc,      \* position inside Close of the holder: "", "signal", "teardown"
    \* the resources and channels behind the fields: the k-th connection
    \* opened is resource k, the stop channel made with it is channel k, and
    \* the k-th connection accepted by a listener is resource MaxConns + k
    nConns,       \* number of connections opened so far
    nPeers,       \* number of connections accepted so far
    hClosedBy,    \* who called Close() on h: "none", "caller", "task"
    chClosed,     \* number of close() calls on stop channel h
    hSoft,        \* JLinkWrapper.useSoftRTT of wrapper h
    \* background tasks: task h is the goroutine started for resource h
    tpc,          \* where task h stands ("none": not started, "done": returned)
    tLocal,       \* its local: addr (UDP), conn (acceptor), jl (RTT poll loop),
                  \* err after a failed Read / ReadFrom (ErrClosed, ErrLink)
    \* what the outside sees
    errCnt,       \* "serial-error" events per resource whose read failed
    ret           \* the API call that has just returned: which (an Open*,
                  \* Close, SendData), its result, what it wrote and where to,
                  \* and whether it left a resource it acquired open

VARIABLES
    \* one JLinkWrapper and the target behind it
    wrapper,      \* its fields: the entry points resolved, useSoftRTT,
                  \* rttControlBlk, rttUpBuffer.Size
    target,       \* target memory: where the signature is, and the size,
                  \* write offset and read offset of up-buffer 0
    jpc,          \* where the wrapper's caller stands
    iter,         \* the loop variable of Connect (i) or of initSoftRTT (offset)
    calls,        \* the entry points called so far, in order
    jret          \* what the last wrapper operation returned

VARIABLES
    \* one call of compareVersions (pkg/updater)
    v1, v2,       \* its arguments, each a string as the sequence of its characters
    cmp           \* whether it has returned, and what

appVars  == <<isConnected, connType, readStopChan, serialPort, netConn,
              netListener, udpConn, udpRemote, jlinkConn>>
lockVars == <<mutex, closePc>>
resVars  == <<nConns, nPeers, hClosedBy, chClosed, hSoft>>
taskVars == <<tpc, tLocal>>
evVars   == <<errCnt>>
jlinkVars == <<wrapper, target, jpc, iter, calls, jret>>
updVars  == <<v1, v2, cmp>>
vars     == <<appVars, lockVars, resVars, taskVars, evVars, ret, jlinkVars, updVars>>

NoRet == [op |-> "", res |-> "", to |-> 0, addr |-> 0, leak |-> FALSE]
Ret(op, res) == [NoRet EXCEPT !.op = op, !.res = res]

Conns == 1..MaxConns
Peers == (MaxConns + 1)..MaxHandles
newConn == nConns + 1               \* the resource the next Open* creates
newPeer == MaxConns + nPeers + 1    \* the connection the next Accept returns
Created(h) == h \in 1..nConns \/ h \in (MaxConns + 1)..(MaxConns + nPeers)
\* resource h exists and nobody has closed it
Live(h) == Created(h) /\ hClosedBy[h] = "none"
\* a Read / ReadFrom / Accept on h must return an error: h is closed
ReadFails(h) == hClosedBy[h] # "none"
\* the err a failed read of h returns: "use of closed ..." when somebody
\* has closed h, else an I/O error of the link behind it (cable pulled,
\* peer gone, probe unplugged)
ErrClosed == 0
ErrLink   == 1
ReadErr(h) == IF hClosedBy[h] = "none" THEN ErrLink ELSE ErrClosed

\* the entry points NewJLinkWrapper registers
CoreSymbols == {"JLINK_Open", "JLINK_Close", "JLINK_Connect", "JLINK_TIF_Select",
                "JLINK_ExecCommand", "JLINK_ReadMem", "JLINK_WriteMem"}
RTTSymbols  == {"JLINK_RTT_Start", "JLINK_RTT_Read", "JLINK_RTT_Write"}
Symbols     == CoreSymbols \cup RTTSymbols \cup {"JLINK_IsConnected"}

\* &JLinkWrapper{libHandle: lib, ...}: every other field is zero
NewWrapper(resolved) ==
    [api |-> resolved, useSoftRTT |-> FALSE, rttControlBlk |-> 0, Size |-> 0]
NoJRet == [op |-> "", err |-> "", data |-> <<>>, reads |-> <<>>,
           wrote |-> -1, wrOff |-> 0, rdOff |-> 0, sym |-> {}]
NoTarget == [sig |-> -1, Size |-> 0, WrOff |-> 0, RdOff |-> 0]

\* no wrapper exists
NoJLink ==
    /\ wrapper = NewWrapper({}) /\ target = NoTarget
    /\ jpc = "" /\ iter = 0 /\ calls = <<>> /\ jret = NoJRet

\* compareVersions is not being called
NoCmp == [called |-> FALSE, ret |-> 0]
NoCompare == v1 = <<>> /\ v2 = <<>> /\ cmp = NoCmp

\* NewApp(): the zero value of App
NewApp ==
    /\ isConnected = FALSE /\ connType = "" /\ readStopChan = 0
    /\ serialPort = 0 /\ netConn = 0 /\ netListener = 0
    /\ udpConn = 0 /\ udpRemote = 0 /\ jlinkConn = 0
    /\ mutex = 0 /\ closePc = ""
    /\ nConns = 0 /\ nPeers = 0
    /\ hClosedBy = [h \in Handles |-> "none"]
    /\ chClosed = [h \in Handles |-> 0]
    /\ hSoft = [h \in Handles |-> FALSE]
    /\ tpc = [h \in Handles |-> "none"]
    /\ tLocal = [h \in Handles |-> 0]
    /\ errCnt = [h \in Handles |-> 0]
    /\ ret = NoRet

Init == NewApp /\ NoJLink /\ NoCompare

\* ---- Open* ----

\* the refusal common to every Open*: "if a.isConnected { return ... }"
AlreadyConnected ==
    /\ ret' = Ret("Open", "Already connected")
    /\ UNCHANGED <<appVars, lockVars, resVars, taskVars, evVars>>

\* an Open* whose connect step failed and released what it had acquired
OpenFailed ==
    /\ ret' = Ret("Open", "Error")
    /\ UNCHANGED <<appVars, lockVars, resVars, taskVars, evVars>>

\* Opened without "a.readStopChan = make(chan struct{})" once a channel exists
Opened_KeepsChannel(field, type, pc) ==
    /\ nConns < MaxConns /\ nConns + nPeers < MaxResources
    /\ nConns' = nConns + 1
    /\ serialPort'  = IF field = "serialPort"  THEN newConn ELSE serialPort
    /\ netConn'     = IF field = "netConn"     THEN newConn ELSE netConn
    /\ netListener' = IF field = "netListener" THEN newConn ELSE netListener
    /\ udpConn'     = IF field = "udpConn"     THEN newConn ELSE udpConn
    /\ jlinkConn'   = IF field = "jlinkConn"   THEN newConn ELSE jlinkConn
    /\ connType' = type
    /\ isConnected' = TRUE
    /\ readStopChan' = IF readStopChan # 0 THEN readStopChan ELSE newConn
    /\ tpc' = [tpc EXCEPT ![newConn] = pc]
    /\ ret' = Ret("Open", "Success")
    /\ UNCHANGED <<lockVars, nPeers, hClosedBy, chClosed, tLocal, evVars>>

\* What each Open* does once its connect step has succeeded: the handle
\* field, connType, then isConnected, a fresh stop channel and the task
Opened(field, type, pc) ==
    /\ nConns < MaxConns /\ nConns + nPeers < MaxResources
    /\ nConns' = nConns + 1
    /\ serialPort'  = IF field = "serialPort"  THEN newConn ELSE serialPort
    /\ netConn'     = IF field = "netConn"     THEN newConn ELSE netConn
    /\ netListener' = IF field = "netListener" THEN newConn ELSE netListener
    /\ udpConn'     = IF field = "udpConn"     THEN newConn ELSE udpConn
    /\ jlinkConn'   = IF field = "jlinkConn"   THEN newConn ELSE jlinkConn
    /\ connType' = type
    /\ isConnected' = TRUE
    /\ readStopChan' = newConn
    /\ tpc' = [tpc EXCEPT ![newConn] = pc]
    /\ ret' = Ret("Open", "Success")
    /\ UNCHANGED <<lockVars, nPeers, hClosedBy, chClosed, tLocal, evVars>>

\* OpenSerial without the "if a.isConnected" refusal
OpenSerial_NoRefusal ==
    /\ mutex = 0
    /\ \E ok \in BOOLEAN :
          IF ~ok THEN OpenFailed
          ELSE /\ Opened("serialPort", TypeSerial, "rl_select")
               /\ UNCHANGED <<udpRemote, hSoft>>

\* ok: serial.Open succeeded; startReadLoop(port)
OpenSerial ==
    /\ mutex = 0
    /\ IF isConnected THEN AlreadyConnected
       ELSE \E ok \in BOOLEAN :
               IF ~ok THEN OpenFailed
               ELSE /\ Opened("serialPort", TypeSerial, "rl_select")
                    /\ UNCHANGED <<udpRemote, hSoft>>

\* ok: net.DialTimeout succeeded; startReadLoop(conn)
OpenTcpClient ==
    /\ mutex = 0
    /\ IF isConnected THEN AlreadyConnected
       ELSE \E ok \in BOOLEAN :
               IF ~ok THEN OpenFailed
               ELSE /\ Opened("netConn", TypeTcpClient, "rl_select")
                    /\ UNCHANGED <<udpRemote, hSoft>>

\* ok: net.Listen succeeded; the goroutine that accepts
OpenTcpServer ==
    /\ mutex = 0
    /\ IF isConnected THEN AlreadyConnected
       ELSE \E ok \in BOOLEAN :
               IF ~ok THEN OpenFailed
               ELSE /\ Opened("netListener", TypeTcpServer, "acc_select")
                    /\ UNCHANGED <<udpRemote, hSoft>>

\* okListen: net.ListenPacket succeeded; remote: the address remoteIp and
\* remotePort name (0: one of them is empty); okResolve: ResolveUDPAddr
\* succeeded (when it fails OpenUdp closes the socket it has just bound)
OpenUdp ==
    /\ mutex = 0
    /\ IF isConnected THEN AlreadyConnected
       ELSE \E okListen \in BOOLEAN :
               IF ~okListen THEN OpenFailed
               ELSE \E remote \in 0..MaxAddr, okResolve \in BOOLEAN :
                       /\ remote = 0 => okResolve
                       /\ IF ~okResolve THEN OpenFailed
                          ELSE /\ Opened("udpConn", TypeUdp, "udp_select")
                               /\ udpRemote' = remote
                               /\ UNCHANGED hSoft

\* What NewJLinkWrapper followed by Connect can come to:
\*   "loadfail"  getLibraryPath / openLibrary failed, nothing was loaded
\*   "nocore"    library loaded, apiOpen or apiReadMem unresolved: the error
\*               is returned without closeLibrary
\*   "connfail"  apiConnect() < 0;  "rttfail"  initSoftRTT failed 3 times:
\*               OpenJLink calls jl.Close() (apiClose, closeLibrary)
\*   "native"    apiRTTStart() >= 0;  "soft"  initSoftRTT succeeded
JLinkOutcomes == {"loadfail", "nocore", "connfail", "rttfail", "native", "soft"}

OpenJLink ==
    /\ mutex = 0
    /\ IF isConnected THEN AlreadyConnected
       ELSE \E outcome \in JLinkOutcomes :
               IF outcome = "nocore" THEN
                    /\ ret' = [Ret("Open", "Error") EXCEPT !.leak = TRUE]
                    /\ UNCHANGED <<appVars, lockVars, resVars, taskVars, evVars>>
               ELSE IF outcome \in {"loadfail", "connfail", "rttfail"} THEN OpenFailed
               ELSE /\ Opened("jlinkConn", TypeJLink, "jl_select")
                    /\ hSoft' = [hSoft EXCEPT ![newConn] = (outcome = "soft")]
                    /\ UNCHANGED udpRemote

\* ---- Close ----

\* the resources Close releases for the current connType (the switch)
CloseTargets ==
    CASE connType = TypeSerial    -> {serialPort} \ {0}
      [] connType = TypeJLink     -> {jlinkConn} \ {0}
      [] connType = TypeTcpClient -> {netConn} \ {0}
      [] connType = TypeTcpServer -> {netListener, netConn} \ {0}
      [] connType = TypeUdp       -> {udpConn} \ {0}
      [] OTHER                    -> {}

Closer(who) == IF who = -1 THEN "caller" ELSE "task"

\* Close without the "if !a.isConnected" refusal
CloseBegin_NoRefusal(who) ==
    /\ mutex = 0
    /\ isConnected' = FALSE
    /\ mutex' = who
    /\ closePc' = "signal"
    /\ IF who = -1 THEN UNCHANGED tpc
       ELSE tpc' = [tpc EXCEPT ![who] = "inclose"]
    /\ UNCHANGED <<connType, readStopChan, serialPort, netConn, netListener,
                   udpConn, udpRemote, jlinkConn, resVars, tLocal, evVars, ret>>

\* Close that takes the lock and goes on with the flag still set
CloseBegin_FlagLast(who) ==
    /\ mutex = 0
    /\ IF ~isConnected
       THEN /\ IF who = -1
               THEN ret' = Ret("Close", "Not connected") /\ UNCHANGED tpc
               ELSE tpc' = [tpc EXCEPT ![who] = "done"] /\ UNCHANGED ret
            /\ UNCHANGED <<appVars, lockVars, resVars, tLocal, evVars>>
       ELSE /\ mutex' = who
            /\ closePc' = "signal"
            /\ IF who = -1 THEN UNCHANGED tpc
               ELSE tpc' = [tpc EXCEPT ![who] = "inclose"]
            /\ UNCHANGED <<appVars, resVars, tLocal, evVars, ret>>

\* Close up to and including "a.isConnected = false"; who = -1 is a caller
\* of the API, who = h the read task h calling a.Close() after a read error
CloseBegin(who) ==
    /\ mutex = 0
    /\ IF ~isConnected
       THEN /\ IF who = -1
               THEN ret' = Ret("Close", "Not connected") /\ UNCHANGED tpc
               ELSE tpc' = [tpc EXCEPT ![who] = "done"] /\ UNCHANGED ret
            /\ UNCHANGED <<appVars, lockVars, resVars, tLocal, evVars>>
       ELSE /\ isConnected' = FALSE
            /\ mutex' = who
            /\ closePc' = "signal"
            /\ IF who = -1 THEN UNCHANGED tpc
               ELSE tpc' = [tpc EXCEPT ![who] = "inclose"]
            /\ UNCHANGED <<connType, readStopChan, serialPort, netConn, netListener,
                           udpConn, udpRemote, jlinkConn, resVars, tLocal, evVars, ret>>

\* "if a.readStopChan != nil { close(a.readStopChan) }"
CloseSignal ==
    /\ mutex # 0 /\ closePc = "signal"
    /\ closePc' = "teardown"
    /\ IF readStopChan # 0
       THEN chClosed' = [chClosed EXCEPT ![readStopChan] = IF @ < 2 THEN @ + 1 ELSE @]
       ELSE UNCHANGED chClosed
    /\ UNCHANGED <<appVars, mutex, nConns, nPeers, hClosedBy, hSoft,
                   taskVars, evVars, ret>>

\* the switch on connType, the return and the deferred Unlock;
\* cerr: the handle's Close() returned an error
CloseTeardown(cerr) ==
    /\ mutex # 0 /\ closePc = "teardown"
    /\ cerr => (connType # TypeJLink /\ CloseTargets # {})
    /\ hClosedBy' = [h \in Handles |->
                        IF h \in CloseTargets /\ hClosedBy[h] = "none"
                        THEN Closer(mutex) ELSE hClosedBy[h]]
    /\ serialPort'  = IF connType = TypeSerial THEN 0 ELSE serialPort
    /\ jlinkConn'   = IF connType = TypeJLink THEN 0 ELSE jlinkConn
    /\ netConn'     = IF connType \in {TypeTcpClient, TypeTcpServer} THEN 0 ELSE netConn
    /\ netListener' = IF connType = TypeTcpServer THEN 0 ELSE netListener
    /\ udpConn'     = IF connType = TypeUdp THEN 0 ELSE udpConn
    /\ udpRemote'   = IF connType = TypeUdp /\ udpConn # 0 THEN 0 ELSE udpRemote
    /\ mutex' = 0 /\ closePc' = ""
    /\ IF mutex = -1
       THEN /\ ret' = Ret("Close", IF cerr THEN "Error closing" ELSE "Success")
            /\ UNCHANGED tpc
       ELSE /\ tpc' = [tpc EXCEPT ![mutex] = "done"]
            /\ UNCHANGED ret
    /\ UNCHANGED <<isConnected, connType, readStopChan, nConns, nPeers,
                   chClosed, hSoft, tLocal, evVars>>

Close == CloseBegin(-1)

\* ---- SendData ----

\* a Write / WriteTo / WriteRTT on h; werr: it returned an error
Wrote(h, addr, werr) ==
    ret' = [Ret("SendData", IF werr THEN "Send error" ELSE "Sent")
               EXCEPT !.to = h, !.addr = addr]

\* SendData with the TCP branch writing whether or not a peer is current
SendData_NoPeerTest(werr) ==
    /\ mutex = 0
    /\ IF ~isConnected THEN ~werr /\ ret' = Ret("SendData", "Error: Not connected")
       ELSE CASE connType = TypeSerial ->
                   IF serialPort # 0
                   THEN Wrote(serialPort, 0, werr)
                   ELSE ~werr /\ ret' = Ret("SendData", "Sent")
              [] connType = TypeJLink ->
                   /\ ~werr
                   /\ \E hasWrite \in BOOLEAN :
                         IF jlinkConn # 0 /\ ~hSoft[jlinkConn] /\ hasWrite
                         THEN Wrote(jlinkConn, 0, FALSE)
                         ELSE ret' = Ret("SendData", "Sent")
              [] connType \in {TypeTcpClient, TypeTcpServer} ->
                   Wrote(netConn, 0, werr)
              [] connType = TypeUdp ->
                   IF udpConn # 0 /\ udpRemote # 0
                   THEN Wrote(udpConn, udpRemote, werr)
                   ELSE ~werr /\ ret' = Ret("SendData", "Error: No remote address set")
              [] OTHER -> ~werr /\ ret' = Ret("SendData", "Sent")
    /\ UNCHANGED <<appVars, lockVars, resVars, taskVars, evVars>>

\* Lock, defer Unlock: the whole call runs with the mutex held
SendData(werr) ==
    /\ mutex = 0
    /\ IF ~isConnected THEN ~werr /\ ret' = Ret("SendData", "Error: Not connected")
       ELSE CASE connType = TypeSerial ->
                   IF serialPort # 0
                   THEN Wrote(serialPort, 0, werr)
                   ELSE ~werr /\ ret' = Ret("SendData", "Sent")
              [] connType = TypeJLink ->
                   \* WriteRTT never returns an error; soft mode writes nothing,
                   \* nor does native mode when apiRTTWrite is nil (hasWrite)
                   /\ ~werr
                   /\ \E hasWrite \in BOOLEAN :
                         IF jlinkConn # 0 /\ ~hSoft[jlinkConn] /\ hasWrite
                         THEN Wrote(jlinkConn, 0, FALSE)
                         ELSE ret' = Ret("SendData", "Sent")
              [] connType \in {TypeTcpClient, TypeTcpServer} ->
                   IF netConn # 0
                   THEN Wrote(netConn, 0, werr)
                   ELSE /\ ~werr
                        /\ IF connType = TypeTcpServer
                           THEN ret' = Ret("SendData", "Error: No client connected")
                           ELSE ret' = Ret("SendData", "Sent")
              [] connType = TypeUdp ->
                   IF udpConn # 0 /\ udpRemote # 0
                   THEN Wrote(udpConn, udpRemote, werr)
                   ELSE ~werr /\ ret' = Ret("SendData", "Error: No remote address set")
              [] OTHER -> ~werr /\ ret' = Ret("SendData", "Sent")
    /\ UNCHANGED <<appVars, lockVars, resVars, taskVars, evVars>>

\* ---- the background tasks ----

\* "case <-a.readStopChan": the channel the field holds now is closed
StopClosed == readStopChan # 0 /\ chClosed[readStopChan] > 0

\* runtime.EventsEmit(a.ctx, "serial-error", ...) after a failed read of h
EmitError(h) ==
    errCnt' = [errCnt EXCEPT ![h] = IF @ < 2 THEN @ + 1 ELSE @]

Goto(h, pc) == tpc' = [tpc EXCEPT ![h] = pc]

\* startReadLoop's goroutine (serial port or TCP client connection h)
ReadLoopSelect(h) ==
    /\ tpc[h] = "rl_select"
    /\ Goto(h, IF StopClosed THEN "done" ELSE "rl_read")
    /\ UNCHANGED <<appVars, lockVars, resVars, tLocal, evVars, ret>>

\* reader.Read(buff) returns: an error (fail), or data that is emitted
ReadLoopRead(h, fail) ==
    /\ tpc[h] = "rl_read"
    /\ ReadFails(h) => fail
    /\ Goto(h, IF fail THEN "rl_err" ELSE "rl_select")
    /\ tLocal' = [tLocal EXCEPT ![h] = IF fail THEN ReadErr(h) ELSE 0]
    /\ UNCHANGED <<appVars, lockVars, resVars, evVars, ret>>

\* "if a.isConnected { EventsEmit(serial-error); a.Close() }; return"
ReadLoopErr(h) ==
    /\ tpc[h] = "rl_err"
    /\ IF isConnected
       THEN EmitError(h) /\ Goto(h, "close")
       ELSE Goto(h, "done") /\ UNCHANGED evVars
    /\ tLocal' = [tLocal EXCEPT ![h] = 0]
    /\ UNCHANGED <<appVars, lockVars, resVars, ret>>

\* the a.Close() a read task calls after it reported the error
TaskClose(h) ==
    /\ tpc[h] = "close"
    /\ CloseBegin(h)

\* OpenUdp's goroutine on socket h
UdpSelect(h) ==
    /\ tpc[h] = "udp_select"
    /\ Goto(h, IF StopClosed THEN "done" ELSE "udp_read")
    /\ UNCHANGED <<appVars, lockVars, resVars, tLocal, evVars, ret>>

\* conn.ReadFrom returns: an error other than the timeout (fail), the
\* 500 ms timeout (from = 0), or a packet sent by from
UdpRead(h, from, fail) ==
    /\ tpc[h] = "udp_read"
    /\ ReadFails(h) => fail
    /\ fail => from = 0
    /\ IF fail
       THEN Goto(h, "udp_err") /\ tLocal' = [tLocal EXCEPT ![h] = ReadErr(h)]
       ELSE IF from = 0
            THEN Goto(h, "udp_select") /\ UNCHANGED tLocal
            ELSE Goto(h, "udp_adopt") /\ tLocal' = [tLocal EXCEPT ![h] = from]
    /\ UNCHANGED <<appVars, lockVars, resVars, evVars, ret>>

\* "if a.isConnected { EventsEmit(serial-error) }; return" (no Close)
UdpErr(h) ==
    /\ tpc[h] = "udp_err"
    /\ IF isConnected THEN EmitError(h) ELSE UNCHANGED evVars
    /\ Goto(h, "done")
    /\ tLocal' = [tLocal EXCEPT ![h] = 0]
    /\ UNCHANGED <<appVars, lockVars, resVars, ret>>

\* Lock; "if a.udpRemote == nil { a.udpRemote = addr }"; Unlock; emit data
UdpAdopt(h) ==
    /\ tpc[h] = "udp_adopt"
    /\ mutex = 0
    /\ udpRemote' = IF udpRemote = 0 THEN tLocal[h] ELSE udpRemote
    /\ tLocal' = [tLocal EXCEPT ![h] = 0]
    /\ Goto(h, "udp_select")
    /\ UNCHANGED <<isConnected, connType, readStopChan, serialPort, netConn,
                   netListener, udpConn, jlinkConn, lockVars, resVars, evVars, ret>>

\* OpenTcpServer's goroutine on listener h
AcceptSelect(h) ==
    /\ tpc[h] = "acc_select"
    /\ Goto(h, IF StopClosed THEN "done" ELSE "acc_accept")
    /\ UNCHANGED <<appVars, lockVars, resVars, tLocal, evVars, ret>>

\* listener.Accept(): an error (fail) ends the task, else a new connection
Accept(h, fail) ==
    /\ tpc[h] = "acc_accept"
    /\ ReadFails(h) => fail
    /\ IF fail
       THEN /\ Goto(h, "done")
            /\ UNCHANGED <<nPeers, tLocal>>
       ELSE /\ nPeers < MaxPeers /\ nConns + nPeers < MaxResources
            /\ nPeers' = nPeers + 1
            /\ tLocal' = [tLocal EXCEPT ![h] = newPeer]
            /\ Goto(h, "acc_install")
    /\ UNCHANGED <<appVars, lockVars, nConns, hClosedBy, chClosed, hSoft,
                   evVars, ret>>

\* the acceptor closing the old a.netConn and leaving it in the field
AcceptInstall_KeepsOldPeer(h) ==
    /\ tpc[h] = "acc_install"
    /\ mutex = 0
    /\ hClosedBy' = IF netConn # 0 /\ hClosedBy[netConn] = "none"
                    THEN [hClosedBy EXCEPT ![netConn] = "task"] ELSE hClosedBy
    /\ netConn' = IF netConn # 0 THEN netConn ELSE tLocal[h]
    /\ tpc' = [tpc EXCEPT ![h] = "acc_select", ![tLocal[h]] = "peer_read"]
    /\ tLocal' = [tLocal EXCEPT ![h] = 0]
    /\ UNCHANGED <<isConnected, connType, readStopChan, serialPort, netListener,
                   udpConn, udpRemote, jlinkConn, lockVars, nConns, nPeers,
                   chClosed, hSoft, evVars, ret>>

\* Lock; close the old a.netConn; a.netConn = conn; Unlock; emit sys-msg;
\* go a.handleTcpConnection(conn)
AcceptInstall(h) ==
    /\ tpc[h] = "acc_install"
    /\ mutex = 0
    /\ hClosedBy' = IF netConn # 0 /\ hClosedBy[netConn] = "none"
                    THEN [hClosedBy EXCEPT ![netConn] = "task"] ELSE hClosedBy
    /\ netConn' = tLocal[h]
    /\ tpc' = [tpc EXCEPT ![h] = "acc_select", ![tLocal[h]] = "peer_read"]
    /\ tLocal' = [tLocal EXCEPT ![h] = 0]
    /\ UNCHANGED <<isConnected, connType, readStopChan, serialPort, netListener,
                   udpConn, udpRemote, jlinkConn, lockVars, nConns, nPeers,
                   chClosed, hSoft, evVars, ret>>

\* handleTcpConnection without "if a.netConn == conn": it clears the field
handleTcpConnection_ClearsAlways(c) ==
    /\ tpc[c] = "peer_read"
    /\ mutex = 0
    /\ netConn' = 0
    /\ Goto(c, "done")
    /\ UNCHANGED <<isConnected, connType, readStopChan, serialPort, netListener,
                   udpConn, udpRemote, jlinkConn, lockVars, resVars, tLocal, evVars, ret>>

\* handleTcpConnection(conn), the branch that ends it: conn.Read returns an
\* error (the link is lost or somebody closed conn; when it returns data the
\* data is emitted and the task reads again), then
\* Lock; "if a.netConn == conn { a.netConn = nil }"; Unlock; return
handleTcpConnection(c) ==
    /\ tpc[c] = "peer_read"
    /\ mutex = 0
    /\ netConn' = IF netConn = c THEN 0 ELSE netConn
    /\ Goto(c, "done")
    /\ UNCHANGED <<isConnected, connType, readStopChan, serialPort, netListener,
                   udpConn, udpRemote, jlinkConn, lockVars, resVars, tLocal, evVars, ret>>

\* jlinkReadLoop: the select between the stop channel and the 10 ms ticker
\* (Go picks among the ready cases at random)
JLinkSelect(h, stop) ==
    /\ tpc[h] = "jl_select"
    /\ stop => StopClosed
    /\ Goto(h, IF stop THEN "done" ELSE "jl_fetch")
    /\ UNCHANGED <<appVars, lockVars, resVars, tLocal, evVars, ret>>

\* JLinkFetch without the Unlock: the task goes on with the mutex held
JLinkFetch_KeepsLock(h) ==
    /\ tpc[h] = "jl_fetch"
    /\ mutex = 0
    /\ mutex' = h
    /\ IF jlinkConn = 0
       THEN Goto(h, "done") /\ UNCHANGED tLocal
       ELSE Goto(h, "jl_rtt") /\ tLocal' = [tLocal EXCEPT ![h] = jlinkConn]
    /\ UNCHANGED <<appVars, closePc, resVars, evVars, ret>>

\* Lock; jl := a.jlinkConn; Unlock; "if jl == nil { return }"
JLinkFetch(h) ==
    /\ tpc[h] = "jl_fetch"
    /\ mutex = 0
    /\ IF jlinkConn = 0
       THEN Goto(h, "done") /\ UNCHANGED tLocal
       ELSE Goto(h, "jl_rtt") /\ tLocal' = [tLocal EXCEPT ![h] = jlinkConn]
    /\ UNCHANGED <<appVars, lockVars, resVars, evVars, ret>>

\* jl.ReadRTT(): native mode never returns an error; soft mode returns one
\* when a memory read through the probe fails or the offsets are out of
\* bounds. On a wrapper whose library Close has unloaded, the memory read
\* is a call into unmapped code: it may report failure or not.
ReadRTTMayFail(jl) == hSoft[jl]

\* data, err := jl.ReadRTT(); on err: EventsEmit(serial-error), then a.Close()
JLinkRead(h, err) ==
    /\ tpc[h] = "jl_rtt"
    /\ err => ReadRTTMayFail(tLocal[h])
    /\ IF err
       THEN EmitError(tLocal[h]) /\ Goto(h, "close")
       ELSE Goto(h, "jl_select") /\ UNCHANGED evVars
    /\ tLocal' = [tLocal EXCEPT ![h] = 0]
    /\ UNCHANGED <<appVars, lockVars, resVars, ret>>

\* the call returns: the binding hands the string to the frontend
Return ==
    /\ ret # NoRet
    /\ ret' = NoRet
    /\ UNCHANGED <<appVars, lockVars, resVars, taskVars, evVars>>

\* no call is returning: a call's result is delivered to the frontend before
\* the next step of the program is observed
Ready == ret = NoRet

Next ==
    \/ Return /\ UNCHANGED <<jlinkVars, updVars>>
    \/ Ready /\ OpenSerial /\ UNCHANGED <<jlinkVars, updVars>>
    \/ Ready /\ OpenTcpClient /\ UNCHANGED <<jlinkVars, updVars>>
    \/ Ready /\ OpenTcpServer /\ UNCHANGED <<jlinkVars, updVars>>
    \/ Ready /\ OpenUdp /\ UNCHANGED <<jlinkVars, updVars>>
    \/ Ready /\ OpenJLink /\ UNCHANGED <<jlinkVars, updVars>>
    \/ Ready /\ Close /\ UNCHANGED <<jlinkVars, updVars>>
    \/ Ready /\ CloseSignal /\ UNCHANGED <<jlinkVars, updVars>>
    \/ \E cerr \in BOOLEAN : Ready /\ CloseTeardown(cerr) /\ UNCHANGED <<jlinkVars, updVars>>
    \/ \E werr \in BOOLEAN : Ready /\ SendData(werr) /\ UNCHANGED <<jlinkVars, updVars>>
    \/ \E h \in Handles : Ready /\ ReadLoopSelect(h) /\ UNCHANGED <<jlinkVars, updVars>>
    \/ \E h \in Handles, fail \in BOOLEAN : Ready /\ ReadLoopRead(h, fail) /\ UNCHANGED <<jlinkVars, updVars>>
    \/ \E h \in Handles : Ready /\ ReadLoopErr(h) /\ UNCHANGED <<jlinkVars, updVars>>
    \/ \E h \in Handles : Ready /\ TaskClose(h) /\ UNCHANGED <<jlinkVars, updVars>>
    \/ \E h \in Handles : Ready /\ UdpSelect(h) /\ UNCHANGED <<jlinkVars, updVars>>
    \/ \E h \in Handles, from \in 0..MaxAddr, fail \in BOOLEAN : Ready /\ UdpRead(h, from, fail) /\ UNCHANGED <<jlinkVars, updVars>>
    \/ \E h \in Handles : Ready /\ UdpErr(h) /\ UNCHANGED <<jlinkVars, updVars>>
    \/ \E h \in Handles : Ready /\ UdpAdopt(h) /\ UNCHANGED <<jlinkVars, updVars>>
    \/ \E h \in Handles : Ready /\ AcceptSelect(h) /\ UNCHANGED <<jlinkVars, updVars>>
    \/ \E h \in Handles, fail \in BOOLEAN : Ready /\ Accept(h, fail) /\ UNCHANGED <<jlinkVars, updVars>>
    \/ \E h \in Handles : Ready /\ AcceptInstall(h) /\ UNCHANGED <<jlinkVars, updVars>>
    \/ \E h \in Handles : Ready /\ handleTcpConnection(h) /\ UNCHANGED <<jlinkVars, updVars>>
    \/ \E h \in Handles, stop \in BOOLEAN : Ready /\ JLinkSelect(h, stop) /\ UNCHANGED <<jlinkVars, updVars>>
    \/ \E h \in Handles : Ready /\ JLinkFetch(h) /\ UNCHANGED <<jlinkVars, updVars>>
    \/ \E h \in Handles, err \in BOOLEAN : Ready /\ JLinkRead(h, err) /\ UNCHANGED <<jlinkVars, updVars>>

Spec == Init /\ [][Next]_vars

TypeOK ==
    /\ isConnected \in BOOLEAN
    /\ connType \in {"", TypeSerial, TypeTcpClient, TypeTcpServer, TypeUdp, TypeJLink}
    /\ readStopChan \in 0..MaxHandles
    /\ nConns \in 0..MaxConns /\ nPeers \in 0..MaxPeers
    /\ mutex \in -1..MaxHandles
    /\ udpRemote \in Addrs \cup {0}
    /\ \A h \in Handles : errCnt[h] \in 0..2 /\ chClosed[h] \in 0..2

\* ---- properties ----

\* this step is the return of an API call named in ops
Returns(ops) == ret = NoRet /\ ret'.op \in ops
\* everything but the call's result
stateVars == <<appVars, lockVars, resVars, taskVars, evVars>>
\* the connections opened by an Open* that nobody has closed
LiveConns == {h \in 1..nConns : hClosedBy[h] = "none"}

\* C1: at most one connection opened by an Open* is live at any time, and an
\* Open* issued while isConnected is true returns "Already connected" and
\* leaves connType, every handle, udpRemote, the resources and the tasks as
\* they were.
C1_OpenRefusedWhileConnected ==
    [][ /\ \A g, h \in LiveConns' : g = h
        /\ (Returns({"Open"}) /\ isConnected) =>
              (ret'.res = "Already connected" /\ UNCHANGED stateVars) ]_vars

\* an Open* has just been refused while a connection with a running read
\* task is open
C1_Witness ==
    /\ ret.op = "Open" /\ ret.res = "Already connected"
    /\ isConnected /\ LiveConns # {}
    /\ \E h \in LiveConns : tpc[h] \notin {"none", "done"}

\* C2: Close called while no connection is open (by a caller or by a read
\* task after its error) returns "Not connected" and changes nothing: no
\* field, no resource, no stop channel is closed, no event, the lock is free.
C2_CloseWhileIdle ==
    [][ /\ (mutex = 0 /\ ~isConnected /\ ret = NoRet
                /\ (ret'.op = "Close" \/ mutex' = -1)) =>
              (ret'.res = "Not connected" /\ UNCHANGED stateVars)
        /\ \A h \in Handles :
              (mutex = 0 /\ ~isConnected /\ tpc[h] = "close" /\ tpc'[h] # "close") =>
                  (tpc'[h] = "done" /\ UNCHANGED <<appVars, lockVars, resVars, evVars, ret>>)
      ]_vars

\* Close has just refused, after an earlier connection was opened and closed
C2_Witness ==
    /\ ret.op = "Close" /\ ret.res = "Not connected"
    /\ ~isConnected /\ nConns > 0 /\ readStopChan # 0
    /\ chClosed[readStopChan] = 1

\* C3: an Open* that fails (port open, dial, listen, bind, resolve, driver
\* load, probe connect, RTT init) leaves the manager exactly as it was, and
\* has released every resource it acquired during the attempt.
C3_FailedOpenLeavesNothing ==
    [][ (Returns({"Open"}) /\ ret'.res = "Error") =>
            (UNCHANGED stateVars /\ ~ret'.leak) ]_vars

\* C4: SendData refuses, and writes to no handle, when no connection is
\* open ("Not connected"), when the TCP server has no current peer ("No
\* client connected") and when UDP has no remote ("No remote address set");
\* it changes nothing in the manager.
C4_SendDataRefusals ==
    [][ Returns({"SendData"}) =>
          /\ UNCHANGED stateVars
          /\ ~isConnected =>
                (ret'.res = "Error: Not connected" /\ ret'.to = 0)
          /\ (isConnected /\ connType = TypeTcpServer /\ netConn = 0) =>
                (ret'.res = "Error: No client connected" /\ ret'.to = 0)
          /\ (isConnected /\ connType = TypeUdp /\ udpRemote = 0) =>
                (ret'.res = "Error: No remote address set" /\ ret'.to = 0) ]_vars

\* SendData has just refused on a TCP server whose only peer has come and gone
C4_Witness ==
    /\ ret.op = "SendData" /\ ret.res = "Error: No client connected"
    /\ isConnected /\ connType = TypeTcpServer /\ netConn = 0
    /\ \E c \in Peers : tpc[c] = "done"

\* the handle the current connType reads from (the listener for a server)
CurrentHandle ==
    CASE connType = TypeSerial    -> serialPort
      [] connType = TypeJLink     -> jlinkConn
      [] connType = TypeTcpClient -> netConn
      [] connType = TypeTcpServer -> netListener
      [] connType = TypeUdp       -> udpConn
      [] OTHER                    -> 0

\* C5: while isConnected is true the handle of the current kind exists and
\* is open, and the task reading it (the acceptor for a TCP server) has not
\* returned.
C5_ConnectedHasHandleAndTask ==
    isConnected =>
        /\ CurrentHandle # 0
        /\ Live(CurrentHandle)
        /\ tpc[CurrentHandle] \notin {"none", "done"}

\* C6: whenever isConnected is false and no Close is in progress, serialPort,
\* netConn, netListener, udpConn, udpRemote and jlinkConn are all nil.
C6_IdleHasNoHandles ==
    (~isConnected /\ mutex = 0) =>
        /\ serialPort = 0 /\ netConn = 0 /\ netListener = 0
        /\ udpConn = 0 /\ udpRemote = 0 /\ jlinkConn = 0

\* the step emits a "serial-error" for a failed read of connection h
Emits(h) == errCnt'[h] # errCnt[h]

\* C7: no "serial-error" event is ever emitted for a connection whose read
\* failed because a caller's Close had closed it.
C7_NoErrorEventOnCallerClose ==
    [][ \A h \in Conns :
          Emits(h) => ~( /\ hClosedBy[h] = "caller"
                         /\ tpc[h] \in {"rl_err", "udp_err"} => tLocal[h] = ErrClosed )
      ]_vars

\* C8: a lost link is reported exactly once: a read task that handles the
\* failed read of a connection the caller has not closed leaves exactly one
\* "serial-error" for it, and no connection ever has two.
C8_OneEventPerLinkLoss ==
    [][ \A h \in Conns :
          /\ errCnt'[h] <= 1
          /\ ( /\ tpc[h] \in {"rl_err", "udp_err"} /\ tpc'[h] # tpc[h]
               /\ tLocal[h] = ErrLink /\ hClosedBy[h] # "caller" /\ mutex # -1 )
                => errCnt'[h] = 1 ]_vars

\* C9: once a "serial-error" was emitted for a connection and no task is
\* on its way through Close, that connection has been closed.
C9_ErrorEventThenTeardown ==
    \A h \in Conns :
        (errCnt[h] > 0 /\ \A t \in Handles : tpc[t] \notin {"close", "inclose"})
            => hClosedBy[h] # "none"

\* C10: on an open UDP connection udpRemote is set only by OpenUdp or, while it
\* is nil, to the sender of a packet received on the socket that is open
\* now; once set no packet changes it; Close of a UDP connection clears it.
C10_UdpRemoteIsFirstSender ==
    [][ /\ (udpRemote' # udpRemote /\ isConnected' /\ connType' = TypeUdp) =>
              \/ Returns({"Open"})
              \/ /\ udpRemote = 0 /\ connType = TypeUdp
                 /\ udpConn # 0 /\ tpc[udpConn] = "udp_adopt"
                 /\ udpRemote' = tLocal[udpConn]
        /\ (closePc = "teardown" /\ closePc' = "" /\ connType = TypeUdp) =>
              udpRemote' = 0 ]_vars

\* the peers whose installation by an acceptor has happened
Installed == {p \in Peers : tpc[p] # "none"}
\* the one accepted last among them (accept order is handle order)
NewestPeer == IF Installed = {} THEN 0
              ELSE CHOOSE p \in Installed : \A q \in Installed : q <= p

\* C11: while connected as TCP server, the step that makes an accepted peer
\* current closes the peer that was current before it, and a SendData that
\* writes, writes to the peer accepted last.
C11_OnePeerNewestWins ==
    [][ /\ (isConnected /\ connType = TypeTcpServer
                /\ netConn' # netConn /\ netConn' # 0 /\ netConn # 0) =>
              hClosedBy'[netConn] # "none"
        /\ (Returns({"SendData"}) /\ isConnected /\ connType = TypeTcpServer
                /\ ret'.to # 0) =>
              ret'.to = NewestPeer ]_vars

\* ---- the software RTT poll (JLinkWrapper.readSoftRTT) ----

\* uint32 arithmetic wraps
Uint == 2 ^ UintBits
U(x) == x % Uint

\* the byte the target holds at offset k of up-buffer 0: every offset holds
\* a different byte, so what a poll returns tells which bytes it read
RingByte(k) == k
\* what apiReadMem(bufBase+off, len, ...) puts into the chunk
ReadMem(off, len) == [j \in 1..len |-> RingByte(U(off + j - 1))]

\* the memory access of one poll that the probe fails (returns < 0)
PollFailures == {"none", "wrOff", "rdOff", "seg1", "seg2", "writeBack"}

\* the offset test with the read offset left unchecked
OffsetsValid_WrOnly(wrOff, rdOff, bufSize) == wrOff < bufSize
\* the offset test with ">" for ">=": an offset equal to the size passes
OffsetsValid_Inclusive(wrOff, rdOff, bufSize) == wrOff <= bufSize /\ rdOff <= bufSize

\* "if wrOff >= bufSize || rdOff >= bufSize" is false
OffsetsValid(wrOff, rdOff, bufSize) == wrOff < bufSize /\ rdOff < bufSize

\* a poll that returns before it has read any data
PollNoData(e, wrOff, rdOff, called) ==
    [op |-> "ReadRTT", err |-> e, data |-> <<>>, reads |-> <<>>, wrote |-> -1,
     wrOff |-> wrOff, rdOff |-> rdOff, sym |-> called]

\* the end of readSoftRTT with a failed write-back returned as an error
PollData_WriteBackFatal(J, data, reads, newRd, wrOff, rdOff, f) ==
    IF f = "writeBack"
    THEN [op |-> "ReadRTT", err |-> "failed to write read offset", data |-> <<>>,
          reads |-> reads, wrote |-> -1, wrOff |-> wrOff, rdOff |-> rdOff,
          sym |-> {"JLINK_ReadMem", "JLINK_WriteMem"}]
    ELSE [op |-> "ReadRTT", err |-> "", data |-> data, reads |-> reads,
          wrote |-> newRd, wrOff |-> wrOff, rdOff |-> rdOff,
          sym |-> {"JLINK_ReadMem", "JLINK_WriteMem"}]

\* the end of readSoftRTT: the new read offset is written back with
\* apiWriteMem (a nil func when JLINK_WriteMem was not resolved: the call
\* panics); when the write fails that is logged and the data is returned
PollData(J, data, reads, newRd, wrOff, rdOff, f) ==
    [op |-> "ReadRTT",
     err |-> IF "JLINK_WriteMem" \in J.api THEN "" ELSE "panic",
     data |-> IF "JLINK_WriteMem" \in J.api THEN data ELSE <<>>,
     reads |-> reads,
     wrote |-> IF "JLINK_WriteMem" \in J.api /\ f # "writeBack" THEN newRd ELSE -1,
     wrOff |-> wrOff, rdOff |-> rdOff,
     sym |-> {"JLINK_ReadMem", "JLINK_WriteMem"}]

\* "if wrOff > rdOff": the pending bytes are contiguous
PollContiguous(J, wrOff, rdOff, f) ==
    LET readLen == IF wrOff - rdOff > maxRTTReadSize THEN maxRTTReadSize
                   ELSE wrOff - rdOff
    IN  IF f = "seg1"
        THEN PollNoData("failed to read RTT data", wrOff, rdOff, {"JLINK_ReadMem"})
        ELSE PollData(J, ReadMem(rdOff, readLen), <<<<rdOff, readLen>>>>,
                      U(rdOff + readLen), wrOff, rdOff, f)

\* else: they wrap, the tail segment first, then the head segment
PollWrapped(J, wrOff, rdOff, bufSize, f) ==
    LET totalLen == U(U(bufSize - rdOff) + wrOff)
        len1 == IF totalLen > maxRTTReadSize /\ bufSize - rdOff > maxRTTReadSize
                THEN maxRTTReadSize ELSE bufSize - rdOff
        len2 == IF totalLen > maxRTTReadSize
                THEN (IF bufSize - rdOff > maxRTTReadSize THEN 0
                      ELSE maxRTTReadSize - len1)
                ELSE wrOff
    IN  IF len1 > 0 /\ f = "seg1"
        THEN PollNoData("failed to read RTT data (segment 1)", wrOff, rdOff,
                        {"JLINK_ReadMem"})
        ELSE IF len2 > 0 /\ f = "seg2"
        THEN [PollNoData("failed to read RTT data (segment 2)", wrOff, rdOff,
                         {"JLINK_ReadMem"})
                 EXCEPT !.reads = IF len1 > 0 THEN <<<<rdOff, len1>>>> ELSE <<>>]
        ELSE PollData(J,
                      (IF len1 > 0 THEN ReadMem(rdOff, len1) ELSE <<>>)
                         \o (IF len2 > 0 THEN ReadMem(0, len2) ELSE <<>>),
                      (IF len1 > 0 THEN <<<<rdOff, len1>>>> ELSE <<>>)
                         \o (IF len2 > 0 THEN <<<<0, len2>>>> ELSE <<>>),
                      U(U(rdOff + len1) + len2) % bufSize,
                      wrOff, rdOff, f)

\* readSoftRTT without "if wrOff == rdOff { return nil, nil }"
readSoftRTT_NoEqualTest(J, T, f) ==
    IF J.rttControlBlk = 0 THEN PollNoData("", 0, 0, {})
    ELSE IF f = "wrOff"
    THEN PollNoData("failed to read write offset", 0, 0, {"JLINK_ReadMem"})
    ELSE IF f = "rdOff"
    THEN PollNoData("failed to read read offset", T.WrOff, 0, {"JLINK_ReadMem"})
    ELSE IF ~OffsetsValid(T.WrOff, T.RdOff, J.Size)
    THEN PollNoData("RTT offset out of bounds", T.WrOff, T.RdOff, {"JLINK_ReadMem"})
    ELSE IF T.WrOff > T.RdOff
    THEN PollContiguous(J, T.WrOff, T.RdOff, f)
    ELSE PollWrapped(J, T.WrOff, T.RdOff, J.Size, f)

\* readSoftRTT on wrapper J with target memory T; f: the access that fails
readSoftRTT(J, T, f) ==
    IF J.rttControlBlk = 0 THEN PollNoData("", 0, 0, {})
    ELSE IF f = "wrOff"
    THEN PollNoData("failed to read write offset", 0, 0, {"JLINK_ReadMem"})
    ELSE IF f = "rdOff"
    THEN PollNoData("failed to read read offset", T.WrOff, 0, {"JLINK_ReadMem"})
    ELSE IF ~OffsetsValid(T.WrOff, T.RdOff, J.Size)
    THEN PollNoData("RTT offset out of bounds", T.WrOff, T.RdOff, {"JLINK_ReadMem"})
    ELSE IF T.WrOff = T.RdOff
    THEN PollNoData("", T.WrOff, T.RdOff, {"JLINK_ReadMem"})
    ELSE IF T.WrOff > T.RdOff
    THEN PollContiguous(J, T.WrOff, T.RdOff, f)
    ELSE PollWrapped(J, T.WrOff, T.RdOff, J.Size, f)

\* ReadRTT() of a wrapper in soft mode, and what it does to target memory
PollSoft(f) ==
    /\ jpc = "poll"
    /\ wrapper.useSoftRTT
    /\ jret' = readSoftRTT(wrapper, target, f)
    /\ target' = IF jret'.wrote >= 0 THEN [target EXCEPT !.RdOff = jret'.wrote]
                 ELSE target
    /\ UNCHANGED <<wrapper, jpc, iter, calls>>

\* the firmware on the target appends a byte to up-buffer 0 (it never
\* makes the write offset catch up with the read offset)
TargetWrites ==
    /\ jpc = "poll"
    /\ OffsetsValid(target.WrOff, target.RdOff, target.Size)
    /\ (target.WrOff + 1) % target.Size # target.RdOff
    /\ target' = [target EXCEPT !.WrOff = (target.WrOff + 1) % target.Size]
    /\ UNCHANGED <<wrapper, jpc, iter, calls, jret>>

\* a wrapper whose Connect has returned in soft mode, the control block
\* found at some address, with any descriptor size and any pair of offsets
\* the target's memory may hold (the firmware's, or garbage after a reset)
InitRTT ==
    /\ NewApp /\ NoCompare
    /\ \E size \in 0..(Uint - 1), wrOff \in 0..(Uint - 1), rdOff \in 0..(Uint - 1) :
          /\ wrapper = [NewWrapper(Symbols) EXCEPT !.useSoftRTT = TRUE,
                           !.rttControlBlk = 1, !.Size = size]
          /\ target = [sig |-> 0, Size |-> size, WrOff |-> wrOff, RdOff |-> rdOff]
    /\ jpc = "poll" /\ iter = 0 /\ calls = <<>> /\ jret = NoJRet

appAll == <<appVars, lockVars, resVars, taskVars, evVars, ret>>

NextRTT ==
    \/ \E f \in PollFailures : PollSoft(f) /\ UNCHANGED <<appAll, updVars>>
    \/ TargetWrites /\ UNCHANGED <<appAll, updVars>>

SpecRTT == InitRTT /\ [][NextRTT]_vars

\* the last operation was a poll that got as far as reading both offsets
Polled == jret.op = "ReadRTT" /\ jret.err \notin {"failed to read write offset",
                                                  "failed to read read offset"}

\* C12: a poll that read a write offset or a read offset not below the
\* buffer size returned an error, read nothing of the data region and did
\* not write the read offset back.
C12_BadOffsetsRejected ==
    (Polled /\ (jret.wrOff >= wrapper.Size \/ jret.rdOff >= wrapper.Size)) =>
        /\ jret.err = "RTT offset out of bounds"
        /\ jret.data = <<>> /\ jret.reads = <<>>
        /\ jret.wrote = -1 /\ target.RdOff = jret.rdOff

\* a poll has rejected a read offset beyond the buffer while the write
\* offset was inside it
C12_Witness ==
    /\ Polled /\ jret.err = "RTT offset out of bounds"
    /\ wrapper.Size > 0 /\ jret.wrOff < wrapper.Size /\ jret.rdOff >= wrapper.Size

\* the bytes of the ring from offset rdOff on, n of them, in ring order
RingFrom(rdOff, n, bufSize) == [j \in 1..n |-> RingByte((rdOff + j - 1) % bufSize)]
\* a poll returned data: no memory read of it failed
PolledData == Polled /\ jret.err = "" /\ jret.data # <<>>
\* the pending length of the offsets the last poll read
Pending == IF jret.wrOff >= jret.rdOff THEN jret.wrOff - jret.rdOff
           ELSE wrapper.Size - jret.rdOff + jret.wrOff

\* C13: a poll that read wrOff < rdOff < size with no more pending than the
\* cap returned buffer[rdOff..size-1] followed by buffer[0..wrOff-1], of
\* exactly that length, and the read offset it wrote back is wrOff.
C13_WrappedReadInOrder ==
    (PolledData /\ jret.wrOff < jret.rdOff /\ jret.rdOff < wrapper.Size
        /\ Pending <= maxRTTReadSize) =>
        /\ jret.data = RingFrom(jret.rdOff, Pending, wrapper.Size)
        /\ jret.reads = <<<<jret.rdOff, wrapper.Size - jret.rdOff>>>>
                           \o (IF jret.wrOff > 0 THEN <<<<0, jret.wrOff>>>> ELSE <<>>)
        /\ jret.wrote \in {-1, jret.wrOff}

\* what holds of the wrapped read: the bytes and their order always, the
\* read offset written back when size + wrOff fits the word
WrappedReadBelowOverflow ==
    (PolledData /\ jret.wrOff < jret.rdOff /\ jret.rdOff < wrapper.Size
        /\ Pending <= maxRTTReadSize) =>
        /\ jret.data = RingFrom(jret.rdOff, Pending, wrapper.Size)
        /\ wrapper.Size + jret.wrOff < Uint => jret.wrote \in {-1, jret.wrOff}

\* C14: a poll whose pending length exceeds maxRTTReadSize, contiguous or
\* wrapped, returned exactly maxRTTReadSize bytes, the ones from the old read
\* offset on in ring order, and the read offset it wrote back is the old one
\* plus maxRTTReadSize modulo the size.
C14_ReadCapped ==
    (PolledData /\ Pending > maxRTTReadSize) =>
        /\ Len(jret.data) = maxRTTReadSize
        /\ jret.data = RingFrom(jret.rdOff, maxRTTReadSize, wrapper.Size)
        /\ jret.wrote \in {-1, (jret.rdOff + maxRTTReadSize) % wrapper.Size}

\* what holds of the capped read: the bytes always, the read offset written
\* back when the old one plus maxRTTReadSize fits the word
ReadCappedBelowOverflow ==
    (PolledData /\ Pending > maxRTTReadSize) =>
        /\ jret.data = RingFrom(jret.rdOff, maxRTTReadSize, wrapper.Size)
        /\ jret.rdOff + maxRTTReadSize < Uint =>
              jret.wrote \in {-1, (jret.rdOff + maxRTTReadSize) % wrapper.Size}

\* the number of bytes the data-region reads of a poll have fetched
RECURSIVE ReadsLen(_)
ReadsLen(reads) == IF reads = <<>> THEN 0
                   ELSE Head(reads)[2] + ReadsLen(Tail(reads))
\* what is pending in target memory now, and how much of it one poll takes
PendingNow == IF target.WrOff >= target.RdOff THEN target.WrOff - target.RdOff
              ELSE wrapper.Size - target.RdOff + target.WrOff
TakeNow == IF PendingNow > maxRTTReadSize THEN maxRTTReadSize ELSE PendingNow
\* this step is a poll that found data pending and read all it takes of it
PollReadsAll ==
    /\ jret'.op = "ReadRTT" /\ target'.WrOff = target.WrOff
    /\ OffsetsValid(target.WrOff, target.RdOff, wrapper.Size)
    /\ target.WrOff # target.RdOff
    /\ ReadsLen(jret'.reads) = TakeNow

\* C16: a poll that has read the pending data returns it with no error
\* whether or not the write-back of the new read offset succeeds; when the
\* write-back failed target memory is as it was, and a poll that follows
\* with the offsets unchanged returns the same bytes again.
C16_WriteBackFailureNotFatal ==
    [][ PollReadsAll =>
          /\ jret'.err = ""
          /\ jret'.data = RingFrom(target.RdOff, TakeNow, wrapper.Size)
          /\ jret'.wrote = -1 => target' = target
          /\ (PolledData /\ jret.wrote = -1 /\ jret.wrOff = target.WrOff) =>
                jret'.data = jret.data ]_vars

\* a poll has returned data while its write-back failed: the target still
\* holds the old read offset
C16_Witness ==
    /\ PolledData /\ jret.wrote = -1
    /\ jret.rdOff = target.RdOff /\ jret.wrOff = target.WrOff
    /\ Len(jret.data) > 1

\* ---- the control-block scan (JLinkWrapper.initSoftRTT) ----

searchStart == 536870912     \* 0x20000000
searchSize  == 65536         \* 0x10000
chunkSize   == 2048          \* 0x800
\* []byte("SEGGER RTT")
signature == <<83, 69, 71, 71, 69, 82, 32, 82, 84, 84>>

\* the byte of target memory at address a: the signature where the target
\* keeps its control block, zero elsewhere
MemByte(a) ==
    IF target.sig >= 0 /\ a - searchStart - target.sig \in 0..(Len(signature) - 1)
    THEN signature[a - searchStart - target.sig + 1] ELSE 0

\* bytes.Index(memBuf, signature) on the chunk read from addr: the first
\* index at which the whole signature lies in memBuf, -1 when there is none
Index(addr) ==
    LET hits == {k \in 0..(chunkSize - Len(signature)) :
                    \A j \in 1..Len(signature) : MemByte(addr + k + j - 1) = signature[j]}
    IN  IF hits = {} THEN -1 ELSE CHOOSE k \in hits : \A l \in hits : k <= l

ScanRet(e, readFailed, reads) ==
    [op |-> "initSoftRTT", err |-> e, failed |-> readFailed, reads |-> reads]

\* one round of "for offset := 0; offset < searchSize; offset += chunkSize":
\* the chunk is read (fail: apiReadMem < 0, continue) and searched
ScanChunk(fail) ==
    /\ jpc = "scan" /\ iter < searchSize
    /\ IF fail
       THEN /\ iter' = iter + chunkSize
            /\ jret' = [jret EXCEPT !.failed = TRUE]
            /\ UNCHANGED <<wrapper, jpc>>
       ELSE IF Index(searchStart + iter) >= 0
       THEN /\ wrapper' = [wrapper EXCEPT !.rttControlBlk =
                              searchStart + iter + Index(searchStart + iter)]
            /\ jpc' = "desc"
            /\ UNCHANGED <<iter, jret>>
       ELSE /\ iter' = iter + chunkSize
            /\ UNCHANGED <<wrapper, jpc, jret>>
    /\ UNCHANGED <<target, calls>>

\* the loop ends: "未找到 SEGGER RTT 控制块"
ScanNotFound ==
    /\ jpc = "scan" /\ iter >= searchSize
    /\ jpc' = "scanned"
    /\ jret' = [jret EXCEPT !.err = "control block not found"]
    /\ UNCHANGED <<wrapper, target, iter, calls>>

\* the 24 bytes of the up-buffer 0 descriptor are read from
\* rttControlBlk + 16 + 4 + 4 and parsed (fail: apiReadMem < 0)
ScanReadDesc(fail) ==
    /\ jpc = "desc"
    /\ jpc' = "scanned"
    /\ jret' = [jret EXCEPT
                  !.err = IF fail THEN "failed to read descriptor" ELSE "",
                  !.failed = jret.failed \/ fail,
                  !.reads = <<<<wrapper.rttControlBlk + 16 + 4 + 4, 24>>>>]
    /\ wrapper' = IF fail THEN wrapper ELSE [wrapper EXCEPT !.Size = target.Size]
    /\ UNCHANGED <<target, iter, calls>>

\* where the signature may start: the start of the window, the middle, the
\* last place it fits, and the places at and around a chunk boundary
ScanOffsets ==
    {0, 1, chunkSize - Len(signature), chunkSize - Len(signature) + 1,
     chunkSize - 4, chunkSize - 1, chunkSize, chunkSize + 1,
     searchSize \div 2, searchSize - chunkSize - 4, searchSize - chunkSize,
     searchSize - Len(signature)}

\* the wrapper ReinitSoftRTT is called on: in soft mode, with the control
\* block and the descriptor an earlier initSoftRTT has cached
Discovered ==
    [NewWrapper(Symbols) EXCEPT !.useSoftRTT = TRUE,
                                !.rttControlBlk = searchStart + chunkSize \div 2,
                                !.Size = Uint \div 2]

\* initSoftRTT is entered from Connect on the wrapper NewJLinkWrapper has
\* returned, or from ReinitSoftRTT on a wrapper in soft mode, on a target
\* that keeps its control block at one of ScanOffsets or has none (sig = -1)
InitScan ==
    /\ NewApp /\ NoCompare
    /\ wrapper \in {NewWrapper(Symbols), Discovered}
    /\ \E o \in ScanOffsets \cup {-1}, size \in {0, Uint - 1} :
          target = [sig |-> o, Size |-> size, WrOff |-> 0, RdOff |-> 0]
    /\ jpc = "scan" /\ iter = 0 /\ calls = <<>>
    /\ jret = ScanRet("", FALSE, <<>>)

NextScan ==
    \/ \E fail \in BOOLEAN : ScanChunk(fail) /\ UNCHANGED <<appAll, updVars>>
    \/ ScanNotFound /\ UNCHANGED <<appAll, updVars>>
    \/ \E fail \in BOOLEAN : ScanReadDesc(fail) /\ UNCHANGED <<appAll, updVars>>

SpecScan == InitScan /\ [][NextScan]_vars

\* C15: when the scan window holds the signature at offset o and no memory
\* read fails, initSoftRTT succeeds, the control-block address is
\* searchStart + o, and the descriptor is read from searchStart + o + 24.
C15_SignatureFound ==
    (jpc = "scanned" /\ target.sig >= 0 /\ ~jret.failed) =>
        /\ jret.err = ""
        /\ wrapper.rttControlBlk = searchStart + target.sig
        /\ jret.reads = <<<<searchStart + target.sig + 24, 24>>>>

\* what holds of the scan: a signature that lies within one chunk is found
SignatureFoundWithinChunk ==
    (jpc = "scanned" /\ target.sig >= 0 /\ ~jret.failed
        /\ target.sig % chunkSize <= chunkSize - Len(signature)) =>
        /\ jret.err = ""
        /\ wrapper.rttControlBlk = searchStart + target.sig
        /\ jret.reads = <<<<searchStart + target.sig + 24, 24>>>>

\* ---- NewJLinkWrapper, Connect and the wrapper's use ----

softRTTAttempts == 3     \* "for i := 0; i < 3; i++"

\* an entry of the call log: the entry point, what it was called for, and
\* what it returned ("neg": a negative code, "ok": anything else)
Call(sym, arg, res) == [sym |-> sym, arg |-> arg, res |-> res]
JRet(op, e, data, called) ==
    [op |-> op, err |-> e, data |-> data, reads |-> <<>>, wrote |-> -1,
     wrOff |-> 0, rdOff |-> 0, sym |-> called]

\* NewJLinkWrapper: the library does not load (loaded = FALSE), or it does
\* and resolved is what registerLibFunc found in it (a symbol it does not
\* find leaves the func nil); "if jl.apiOpen == nil || jl.apiReadMem == nil"
NewJLinkWrapper(loaded, resolved) ==
    /\ jpc = "new"
    /\ IF ~loaded
       THEN /\ jpc' = "failed"
            /\ jret' = JRet("NewJLinkWrapper", "library not loaded", <<>>, {})
            /\ UNCHANGED wrapper
       ELSE /\ wrapper' = NewWrapper(resolved)
            /\ IF "JLINK_Open" \notin resolved \/ "JLINK_ReadMem" \notin resolved
               THEN /\ jpc' = "failed"
                    /\ jret' = JRet("NewJLinkWrapper", "missing core functions", <<>>, {})
               ELSE /\ jpc' = "created"
                    /\ jret' = JRet("NewJLinkWrapper", "", <<>>, {})
    /\ UNCHANGED <<target, iter, calls>>

\* the calls Connect makes up to and including apiConnect, each one only
\* when its func is not nil
ProbeCalls(api, iface, negative) ==
    <<Call("JLINK_Open", "", "ok")>>
    \o (IF "JLINK_TIF_Select" \in api
        THEN <<Call("JLINK_TIF_Select", IF iface = "JTAG" THEN "0" ELSE "1", "ok")>>
        ELSE <<>>)
    \o (IF "JLINK_ExecCommand" \in api
        THEN <<Call("JLINK_ExecCommand", "Speed", "ok"),
               Call("JLINK_ExecCommand", "Device", "ok")>>
        ELSE <<>>)
    \o (IF "JLINK_Connect" \in api
        THEN <<Call("JLINK_Connect", "", IF negative THEN "neg" ELSE "ok")>>
        ELSE <<>>)

\* Connect that goes on to RTT whatever apiConnect returned
ConnectProbe_IgnoresCode(iface, negative) ==
    /\ jpc = "created"
    /\ calls' = calls \o ProbeCalls(wrapper.api, iface, negative)
    /\ jpc' = "rttstart"
    /\ UNCHANGED <<wrapper, target, iter, jret>>

\* Connect up to "if ret := jl.apiConnect(); ret < 0 { return ... }"
ConnectProbe(iface, negative) ==
    /\ jpc = "created"
    /\ calls' = calls \o ProbeCalls(wrapper.api, iface, negative)
    /\ IF "JLINK_Connect" \in wrapper.api /\ negative
       THEN /\ jpc' = "connfailed"
            /\ jret' = JRet("Connect", "connect failed", <<>>, {})
       ELSE /\ jpc' = "rttstart"
            /\ UNCHANGED jret
    /\ UNCHANGED <<wrapper, target, iter>>

\* "if jl.apiRTTStart != nil && jl.apiRTTRead != nil": the native start
\* (started: it returned >= 0), else on to the software fallback
ConnectNative(started) ==
    /\ jpc = "rttstart"
    /\ IF {"JLINK_RTT_Start", "JLINK_RTT_Read"} \subseteq wrapper.api
       THEN /\ calls' = Append(calls, Call("JLINK_RTT_Start", "",
                                          IF started THEN "ok" ELSE "neg"))
            /\ IF started
               THEN /\ wrapper' = [wrapper EXCEPT !.useSoftRTT = FALSE]
                    /\ jret' = JRet("Connect", "", <<>>, {})
                    /\ jpc' = "poll"
               ELSE /\ jpc' = "soft"
                    /\ UNCHANGED <<wrapper, jret>>
       ELSE /\ jpc' = "soft"
            /\ UNCHANGED <<wrapper, calls, jret>>
    /\ iter' = 0
    /\ UNCHANGED target

\* one more round than the loop has
ConnectSoft_OneMore(ok) ==
    /\ jpc = "soft" /\ iter <= softRTTAttempts
    /\ ok => target.sig >= 0
    /\ calls' = Append(calls, Call("JLINK_ReadMem", "initSoftRTT",
                                   IF ok THEN "ok" ELSE "neg"))
    /\ IF ok
       THEN /\ wrapper' = [wrapper EXCEPT !.useSoftRTT = TRUE,
                              !.rttControlBlk = searchStart + target.sig,
                              !.Size = target.Size]
            /\ jret' = JRet("Connect", "", <<>>, {})
            /\ jpc' = "poll"
            /\ UNCHANGED iter
       ELSE /\ iter' = iter + 1
            /\ UNCHANGED <<wrapper, jret, jpc>>
    /\ UNCHANGED target

\* one round of "for i := 0; i < 3; i++ { if err = jl.initSoftRTT(); err ==
\* nil { jl.useSoftRTT = true; return nil }; Sleep }"; ok: initSoftRTT
\* found the control block and read the descriptor
ConnectSoft(ok) ==
    /\ jpc = "soft" /\ iter < softRTTAttempts
    /\ ok => target.sig >= 0
    /\ calls' = Append(calls, Call("JLINK_ReadMem", "initSoftRTT",
                                   IF ok THEN "ok" ELSE "neg"))
    /\ IF ok
       THEN /\ wrapper' = [wrapper EXCEPT !.useSoftRTT = TRUE,
                              !.rttControlBlk = searchStart + target.sig,
                              !.Size = target.Size]
            /\ jret' = JRet("Connect", "", <<>>, {})
            /\ jpc' = "poll"
            /\ UNCHANGED iter
       ELSE /\ iter' = iter + 1
            /\ UNCHANGED <<wrapper, jret, jpc>>
    /\ UNCHANGED target

\* the loop is over: "return fmt.Errorf(软件 RTT 初始化失败)"
ConnectSoftFailed ==
    /\ jpc = "soft" /\ iter >= softRTTAttempts
    /\ jpc' = "connfailed"
    /\ jret' = JRet("Connect", "soft RTT init failed", <<>>, {})
    /\ UNCHANGED <<wrapper, target, iter, calls>>

\* ReadRTT() of a wrapper in native mode; got: apiRTTRead returned n > 0
PollNative(got) ==
    /\ jpc = "poll" /\ ~wrapper.useSoftRTT
    /\ jret' = IF "JLINK_RTT_Read" \notin wrapper.api
               THEN JRet("ReadRTT", "", <<>>, {})
               ELSE JRet("ReadRTT", "", IF got THEN <<RingByte(0)>> ELSE <<>>,
                         {"JLINK_RTT_Read"})
    /\ UNCHANGED <<wrapper, target, jpc, iter, calls>>

\* the payload of a write of n bytes
Payload(n) == [j \in 1..n |-> j]

\* WriteRTT with the soft branch writing the payload into target memory
WriteRTT_SoftWrites(n, w) ==
    /\ jpc = "poll"
    /\ w # 0 => (n > 0 /\ "JLINK_RTT_Write" \in wrapper.api)
    /\ jret' = IF n = 0 THEN [JRet("WriteRTT", "", <<>>, {}) EXCEPT !.wrote = 0]
               ELSE IF wrapper.useSoftRTT
               THEN [JRet("WriteRTT", "", Payload(n), {"JLINK_WriteMem"})
                        EXCEPT !.wrote = n]
               ELSE [JRet("WriteRTT", "", Payload(n), {"JLINK_RTT_Write"})
                        EXCEPT !.wrote = w]
    /\ UNCHANGED <<wrapper, target, jpc, iter, calls>>

\* WriteRTT(data), n = len(data): "if len(data) == 0 { return 0, nil }";
\* in native mode (0, nil) when apiRTTWrite is nil, else the payload goes
\* to apiRTTWrite and what that returns (w, negative or up to n) is
\* returned with a nil error; in soft mode (0, nil)
WriteRTT(n, w) ==
    /\ jpc = "poll"
    /\ w # 0 => (n > 0 /\ ~wrapper.useSoftRTT /\ "JLINK_RTT_Write" \in wrapper.api)
    /\ jret' = IF n > 0 /\ ~wrapper.useSoftRTT /\ "JLINK_RTT_Write" \in wrapper.api
               THEN [JRet("WriteRTT", "", Payload(n), {"JLINK_RTT_Write"})
                        EXCEPT !.wrote = w]
               ELSE [JRet("WriteRTT", "", <<>>, {}) EXCEPT !.wrote = 0]
    /\ UNCHANGED <<wrapper, target, jpc, iter, calls>>

\* the calls of initSoftRTT that ReinitSoftRTT made
Reinits == {k \in 1..Len(calls) : calls[k].arg = "ReinitSoftRTT"}

\* ReinitSoftRTT(): an error in native mode, else initSoftRTT once more;
\* found: it found the control block and cached its address; ok: it also
\* read the descriptor
ReinitSoftRTT(ok) ==
    /\ jpc = "poll"
    /\ IF ~wrapper.useSoftRTT
       THEN /\ ~ok
            /\ jret' = JRet("ReinitSoftRTT", "not using soft RTT", <<>>, {})
            /\ UNCHANGED <<wrapper, calls>>
       ELSE /\ Cardinality(Reinits) < MaxReinit
            /\ ok => target.sig >= 0
            /\ calls' = Append(calls, Call("JLINK_ReadMem", "ReinitSoftRTT",
                                           IF ok THEN "ok" ELSE "neg"))
            /\ \E found \in BOOLEAN :
                  /\ found => target.sig >= 0
                  /\ ok => found
                  /\ wrapper' = [wrapper EXCEPT
                        !.rttControlBlk = IF found THEN searchStart + target.sig ELSE @,
                        !.Size = IF ok THEN target.Size ELSE @]
            /\ jret' = JRet("ReinitSoftRTT",
                            IF ok THEN "" ELSE "control block not found",
                            <<>>, {"JLINK_ReadMem"})
    /\ UNCHANGED <<target, jpc, iter>>

\* the target is reset or its memory is overwritten: the offsets of
\* up-buffer 0 hold anything, the buffer size included (out of bounds)
TargetResets(wrOff, rdOff) ==
    /\ jpc = "poll" /\ wrapper.useSoftRTT
    /\ target' = [target EXCEPT !.WrOff = wrOff, !.RdOff = rdOff]
    /\ UNCHANGED <<wrapper, jpc, iter, calls, jret>>

\* jlinkReadLoop after "data, err := jl.ReadRTT()" returned an error:
\* EventsEmit("serial-error", "RTT Error: " + err), a.Close() (which closes
\* the wrapper unless a caller's Close has done so), return
JLinkLoopError ==
    /\ jpc = "poll"
    /\ jret.op = "ReadRTT" /\ jret.err \notin {"", "panic"}
    /\ jret' = JRet("serial-error", jret.err, <<>>, {})
    /\ jpc' = "closed"
    /\ calls' = IF "JLINK_Close" \in wrapper.api
                THEN Append(calls, Call("JLINK_Close", "", "ok")) ELSE calls
    /\ UNCHANGED <<wrapper, target, iter>>

\* jl.Close(), after a failed Connect (OpenJLink) or by App.Close
WrapperClose ==
    /\ jpc \in {"connfailed", "poll"}
    /\ jpc' = "closed"
    /\ calls' = IF "JLINK_Close" \in wrapper.api
                THEN Append(calls, Call("JLINK_Close", "", "ok")) ELSE calls
    /\ UNCHANGED <<wrapper, target, iter, jret>>

\* before NewJLinkWrapper, on a target that has a control block with two
\* bytes of ring (sig = 0) or none yet (sig = -1)
InitConnect ==
    /\ NewApp /\ NoCompare
    /\ wrapper = NewWrapper({})
    /\ \E o \in {-1, 0} :
          target = [sig |-> o, Size |-> 2, WrOff |-> 1, RdOff |-> 0]
    /\ jpc = "new" /\ iter = 0 /\ calls = <<>> /\ jret = NoJRet

NextConnect ==
    \/ /\ jpc = "new"
       /\ \E loaded \in BOOLEAN, resolved \in SUBSET Symbols :
             NewJLinkWrapper(loaded, resolved) /\ UNCHANGED <<appAll, updVars>>
    \/ \E iface \in {"JTAG", "SWD"}, negative \in BOOLEAN :
          ConnectProbe(iface, negative) /\ UNCHANGED <<appAll, updVars>>
    \/ \E started \in BOOLEAN : ConnectNative(started) /\ UNCHANGED <<appAll, updVars>>
    \/ \E ok \in BOOLEAN : ConnectSoft(ok) /\ UNCHANGED <<appAll, updVars>>
    \/ ConnectSoftFailed /\ UNCHANGED <<appAll, updVars>>
    \/ \E f \in PollFailures : PollSoft(f) /\ UNCHANGED <<appAll, updVars>>
    \/ TargetWrites /\ UNCHANGED <<appAll, updVars>>
    \/ \E got \in BOOLEAN : PollNative(got) /\ UNCHANGED <<appAll, updVars>>
    \/ \E n \in 0..MaxWrite, w \in -1..MaxWrite :
          w <= n /\ WriteRTT(n, w) /\ UNCHANGED <<appAll, updVars>>
    \/ WrapperClose /\ UNCHANGED <<appAll, updVars>>

SpecConnect == InitConnect /\ [][NextConnect]_vars

\* Connect has returned nil
Connected == jpc = "poll"
\* NewJLinkWrapper has returned a wrapper
WrapperCreated == jpc \notin {"new", "failed"}
\* the native start call was made and returned a non-negative code
NativeStarted ==
    \E k \in 1..Len(calls) : calls[k].sym = "JLINK_RTT_Start" /\ calls[k].res = "ok"
\* the calls of initSoftRTT in the log
SoftCalls == {k \in 1..Len(calls) : calls[k].arg = "initSoftRTT"}

\* C17: after a successful Connect the wrapper is in native mode exactly
\* when the three native RTT symbols were resolved and the native start
\* returned a non-negative code, and else in soft mode after a successful
\* initSoftRTT; wrapper creation fails only for a missing core symbol and
\* Connect only for a negative connect code or a failed soft init.
C17_NativeIffSymbolsAndStart ==
    /\ Connected =>
          (~wrapper.useSoftRTT <=> (RTTSymbols \subseteq wrapper.api /\ NativeStarted))
    /\ (Connected /\ wrapper.useSoftRTT) =>
          \E k \in SoftCalls : calls[k].res = "ok"
    /\ (jret.op = "NewJLinkWrapper" /\ jret.err = "missing core functions") =>
          ~(CoreSymbols \subseteq wrapper.api)
    /\ jpc = "connfailed" =>
          \/ \E k \in 1..Len(calls) : calls[k].sym = "JLINK_Connect" /\ calls[k].res = "neg"
          \/ Cardinality(SoftCalls) = 3

\* what holds of the mode: native exactly when the start and the read
\* symbol were resolved and the start returned a non-negative code
NativeIffStartAndReadResolved ==
    /\ Connected =>
          (~wrapper.useSoftRTT <=>
              ({"JLINK_RTT_Start", "JLINK_RTT_Read"} \subseteq wrapper.api /\ NativeStarted))
    /\ (Connected /\ wrapper.useSoftRTT) =>
          \E k \in SoftCalls : calls[k].res = "ok"

\* C18: on the soft fallback path Connect calls initSoftRTT at most 3
\* times, each round but a successful one moves the loop on by one, the
\* first success ends it with soft mode set and no error, and three
\* failures end it with an error and soft mode not set.
C18_SoftInitAtMostThreeTimes ==
    [][ /\ Cardinality(SoftCalls') <= 3
        /\ \A k, l \in SoftCalls' : k < l => calls'[k].res = "neg"
        /\ jpc = "soft" =>
              /\ jpc' \in {"soft", "poll", "connfailed"}
              /\ jpc' = "soft" => (iter' = iter + 1 /\ iter' <= 3)
              /\ jpc' = "poll" =>
                    /\ wrapper'.useSoftRTT /\ jret'.op = "Connect" /\ jret'.err = ""
                    /\ calls'[Len(calls')].arg = "initSoftRTT"
                    /\ calls'[Len(calls')].res = "ok"
              /\ jpc' = "connfailed" =>
                    /\ ~wrapper'.useSoftRTT /\ jret'.op = "Connect" /\ jret'.err # ""
                    /\ Cardinality(SoftCalls) = 3
                    /\ \A k \in SoftCalls : calls[k].res = "neg" ]_vars

\* Connect has returned in soft mode on the third call of initSoftRTT
C18_Witness ==
    /\ Connected /\ wrapper.useSoftRTT /\ Cardinality(SoftCalls) = 3
    /\ calls[Len(calls)].res = "ok" /\ jret.op = "Connect"

\* C19: a wrapper exists only with every core symbol resolved, and no
\* operation on it calls an entry point that was not resolved.
C19_CoreSymbolsRequired ==
    /\ WrapperCreated => CoreSymbols \subseteq wrapper.api
    /\ \A k \in 1..Len(calls) : calls[k].sym \in wrapper.api
    /\ jret.sym \subseteq wrapper.api

\* what holds of the calls: every entry point Connect and Close call was
\* resolved; a poll in soft mode calls apiWriteMem unresolved or not
ConnectCallsResolved ==
    \A k \in 1..Len(calls) : calls[k].sym \in wrapper.api

\* the place of a call in the order open, select-interface, speed, device,
\* connect; 6 for every other call
ProbeRank(c) ==
    CASE c.sym = "JLINK_Open" -> 1
      [] c.sym = "JLINK_TIF_Select" -> 2
      [] c.sym = "JLINK_ExecCommand" /\ c.arg = "Speed" -> 3
      [] c.sym = "JLINK_ExecCommand" /\ c.arg = "Device" -> 4
      [] c.sym = "JLINK_Connect" -> 5
      [] OTHER -> 6

\* C20: Connect calls open, select-interface, configure (speed, then
\* device) and connect in that order, before anything else; when connect
\* returned a negative code Connect has returned an error and neither the
\* native RTT start nor a control-block scan was ever called.
C20_ProbeOrderAndEarlyExit ==
    /\ \A k, l \in 1..Len(calls) :
          (k < l /\ (ProbeRank(calls[k]) <= 5 \/ ProbeRank(calls[l]) <= 5)) =>
              ProbeRank(calls[k]) < ProbeRank(calls[l])
    /\ jpc \notin {"new", "failed", "created"} =>
          \A r \in 1..5 :
              (\E k \in 1..Len(calls) : ProbeRank(calls[k]) = r) <=>
                  (CASE r = 1 -> "JLINK_Open" \in wrapper.api
                     [] r = 2 -> "JLINK_TIF_Select" \in wrapper.api
                     [] r \in {3, 4} -> "JLINK_ExecCommand" \in wrapper.api
                     [] r = 5 -> "JLINK_Connect" \in wrapper.api)
    /\ (\E k \in 1..Len(calls) : calls[k].sym = "JLINK_Connect" /\ calls[k].res = "neg") =>
          /\ jpc \in {"connfailed", "closed"}
          /\ jret.op = "Connect" /\ jret.err = "connect failed"
          /\ \A k \in 1..Len(calls) :
                calls[k].sym \notin {"JLINK_RTT_Start", "JLINK_RTT_Read", "JLINK_ReadMem"}

\* Connect has failed on a negative connect code after all five probe calls
C20_Witness ==
    /\ jpc = "connfailed" /\ Len(calls) = 5
    /\ calls[1].sym = "JLINK_Open" /\ calls[2].sym = "JLINK_TIF_Select"
    /\ calls[3].arg = "Speed" /\ calls[4].arg = "Device"
    /\ calls[5].sym = "JLINK_Connect" /\ calls[5].res = "neg"

\* the step is a call of WriteRTT that returns
WriteRTTReturns == jret' # jret /\ jret'.op = "WriteRTT"

\* C21: in soft mode WriteRTT returns 0 bytes written and a nil error for
\* every payload, it calls no entry point of the library, and the target's
\* memory, the wrapper and the call log are as they were.
C21_SoftWriteUnsupported ==
    [][ (WriteRTTReturns /\ wrapper.useSoftRTT) =>
            /\ jret'.wrote = 0 /\ jret'.err = ""
            /\ jret'.sym = {} /\ jret'.data = <<>>
            /\ UNCHANGED <<wrapper, target, calls>> ]_vars

\* WriteRTT has returned (0, nil) in soft mode on a wrapper that has the
\* native write and the memory write resolved
C21_Witness ==
    /\ Connected /\ wrapper.useSoftRTT
    /\ {"JLINK_RTT_Write", "JLINK_WriteMem"} \subseteq wrapper.api
    /\ jret.op = "WriteRTT" /\ jret.wrote = 0 /\ jret.err = ""

\* the handle SendData writes to for the current connType
WriteHandle ==
    CASE connType = TypeSerial -> serialPort
      [] connType = TypeJLink  -> jlinkConn
      [] connType \in {TypeTcpClient, TypeTcpServer} -> netConn
      [] connType = TypeUdp    -> udpConn
      [] OTHER                 -> 0

\* C22: whenever SendData has returned "Sent", the payload was handed to a
\* write call on the handle of the active transport.
C22_SentMeansWritten ==
    (ret.op = "SendData" /\ ret.res = "Sent") =>
        (ret.to # 0 /\ ret.to = WriteHandle)

\* what holds of it: on every transport but RTT, and while the handle
\* field of the active transport is not nil, "Sent" is returned only after
\* a write call on that handle
SentWithHandleMeansWritten ==
    (ret.op = "SendData" /\ ret.res = "Sent" /\ connType # TypeJLink
        /\ WriteHandle # 0) => ret.to = WriteHandle

\* ---- the RTT read task on a connected wrapper (jlinkReadLoop) ----

\* Connect has returned nil on a wrapper with every entry point resolved,
\* in native mode or in soft mode with the control block found and a ring
\* of size bytes, empty (the largest ring holds more than one poll returns)
InitLoop ==
    /\ NewApp /\ NoCompare
    /\ \E soft \in BOOLEAN, size \in 1..(maxRTTReadSize + 2) :
          /\ wrapper = [NewWrapper(Symbols) EXCEPT !.useSoftRTT = soft,
                           !.rttControlBlk = IF soft THEN searchStart ELSE 0,
                           !.Size = IF soft THEN size ELSE 0]
          /\ target = [sig |-> 0, Size |-> size, WrOff |-> 0, RdOff |-> 0]
    /\ jpc = "poll" /\ iter = 0 /\ calls = <<>> /\ jret = NoJRet

NextLoop ==
    \/ \E f \in PollFailures : PollSoft(f) /\ UNCHANGED <<appAll, updVars>>
    \/ \E got \in BOOLEAN : PollNative(got) /\ UNCHANGED <<appAll, updVars>>
    \/ TargetWrites /\ UNCHANGED <<appAll, updVars>>
    \/ \E wrOff \in 0..target.Size, rdOff \in 0..target.Size :
          TargetResets(wrOff, rdOff) /\ UNCHANGED <<appAll, updVars>>
    \/ \E ok \in BOOLEAN : ReinitSoftRTT(ok) /\ UNCHANGED <<appAll, updVars>>
    \/ JLinkLoopError /\ UNCHANGED <<appAll, updVars>>
    \/ WrapperClose /\ UNCHANGED <<appAll, updVars>>

SpecLoop == InitLoop /\ [][NextLoop]_vars

\* C23: the RTT read task emits the link-error event for an offset
\* out-of-bounds error, and closes the connection, only after a
\* re-initialisation of the software RTT (ReinitSoftRTT) was tried.
C23_CorruptionRetriedBeforeEscalation ==
    (jret.op = "serial-error" /\ jret.err = "RTT offset out of bounds") =>
        Reinits # {}

\* what holds of the read task: every error of a poll, a failed memory
\* read or offsets out of bounds, ends the connection at once
EveryPollErrorEscalates ==
    [][ (jpc = "poll" /\ jret.op = "ReadRTT" /\ jret.err \notin {"", "panic"}
            /\ jret'.op = "serial-error") =>
            (jpc' = "closed" /\ jret'.err = jret.err) ]_vars

\* the last operation was a poll that found the offsets out of bounds
Corrupted == jret.op = "ReadRTT" /\ jret.err = "RTT offset out of bounds"

\* C24: a poll that detects corrupted offsets leaves the cached control
\* block address and buffer descriptor unknown (zero), and the poll that
\* follows it reads no target memory through them.
C24_CorruptionInvalidatesCache ==
    [][ /\ Corrupted' => (wrapper'.rttControlBlk = 0 /\ wrapper'.Size = 0)
        /\ (Corrupted /\ jret'.op = "ReadRTT") => jret'.sym = {} ]_vars

\* what holds of it: the poll that detects corrupted offsets leaves the
\* wrapper's cache as it was
CorruptionKeepsCache ==
    [][ (Corrupted' /\ jret' # jret) => UNCHANGED wrapper ]_vars

\* and of a reconnect: the wrapper NewJLinkWrapper returns knows no control
\* block and no descriptor until Connect has scanned for them
FreshWrapperHasNoControlBlock ==
    jpc \in {"created", "rttstart"} =>
        (wrapper.rttControlBlk = 0 /\ wrapper.Size = 0)

\* ---- scheduling ----

\* What the Go runtime and the operating system give the program: a call
\* that has started returns; a goroutine that can run again and again does
\* run, and one waiting for the mutex gets it (sync.Mutex hands the lock
\* over to a starving waiter); a read, ReadFrom or Accept on a closed handle
\* returns its error; the UDP read returns at its 500 ms deadline; the
\* ticker fires. A read of an open handle may block for ever, and nobody
\* has to call the API.

\* the step task h takes from where it stands, when it can take one
TaskStep(h) ==
    /\ Ready
    /\ \/ ReadLoopSelect(h)
       \/ ReadFails(h) /\ ReadLoopRead(h, TRUE)
       \/ ReadLoopErr(h)
       \/ TaskClose(h)
       \/ UdpSelect(h)
       \/ \E from \in 0..MaxAddr, fail \in BOOLEAN : UdpRead(h, from, fail)
       \/ UdpErr(h)
       \/ UdpAdopt(h)
       \/ AcceptSelect(h)
       \/ ReadFails(h) /\ Accept(h, TRUE)
       \/ AcceptInstall(h)
       \/ ReadFails(h) /\ handleTcpConnection(h)
       \/ \E stop \in BOOLEAN : JLinkSelect(h, stop)
       \/ JLinkFetch(h)
       \/ \E err \in BOOLEAN : JLinkRead(h, err)
    /\ UNCHANGED <<jlinkVars, updVars>>

Fairness ==
    /\ WF_vars(Return /\ UNCHANGED <<jlinkVars, updVars>>)
    /\ WF_vars(Ready /\ CloseSignal /\ UNCHANGED <<jlinkVars, updVars>>)
    /\ WF_vars(\E cerr \in BOOLEAN : Ready /\ CloseTeardown(cerr) /\ UNCHANGED <<jlinkVars, updVars>>)
    /\ \A h \in Handles : SF_vars(TaskStep(h))

FairSpec == Spec /\ Fairness

\* C25: once Close has returned "Success", the task of every connection
\* opened up to then (read loop, UDP read loop, RTT poll loop or acceptor)
\* and the read task of every peer accepted up to then return at some time.
C25_TasksEndAfterClose ==
    \A h \in Handles :
        []((ret.op = "Close" /\ ret.res = "Success" /\ Created(h))
              => <>(tpc[h] = "done"))

\* what holds of it: the read loop of a serial port or TCP client, the UDP
\* read loop and the acceptor of a closed connection return, and so does
\* the read task of a peer whose connection has been closed
ReadTasksEndAfterClose ==
    \A h \in Handles :
        []((hClosedBy[h] # "none" /\ tpc[h] \notin {"none", "jl_select", "jl_fetch", "jl_rtt"})
              => <>(tpc[h] = "done"))

\* C26: a SendData that writes does so with the mutex its own: no Close is
\* between clearing the flag and releasing the handles, no task is inside
\* Close, and the handle it writes to is the one the field of the active
\* transport holds, closed neither by Close nor by the acceptor.
C26_SendDataExclusive ==
    [][ (Returns({"SendData"}) /\ ret'.to # 0) =>
            /\ mutex = 0 /\ closePc = ""
            /\ \A h \in Handles : tpc[h] # "inclose"
            /\ ret'.to = WriteHandle
            /\ hClosedBy[ret'.to] = "none" ]_vars

\* SendData has written to the current peer of a TCP server after the
\* acceptor replaced, and closed, an earlier one
C26_Witness ==
    /\ ret.op = "SendData" /\ ret.to \in Peers /\ ret.to = netConn
    /\ connType = TypeTcpServer /\ isConnected
    /\ \E p \in Peers : p # ret.to /\ hClosedBy[p] = "task"

\* ---- the "serial-data" events of an RTT connection ----

\* an event: where its bytes come from, and the bytes; the text of a log
\* message stands as the line of jlink.go that logs it
Event(from, bytes) == [from |-> from, bytes |-> bytes]

\* what jl.log was called with during the poll that returned r: the
\* offsets-out-of-range error, the two length warnings (logged before the
\* data is read) and the write-back warning
PollLog(r) ==
    LET sawOffsets == r.op = "ReadRTT" /\ r.sym # {} /\ wrapper.useSoftRTT
                         /\ r.err \notin {"failed to read write offset",
                                         "failed to read read offset"}
        valid == OffsetsValid(r.wrOff, r.rdOff, wrapper.Size)
    IN  (IF sawOffsets /\ ~valid THEN <<277>> ELSE <<>>)
        \o (IF sawOffsets /\ valid /\ r.wrOff > r.rdOff
                 /\ r.wrOff - r.rdOff > maxRTTReadSize THEN <<291>> ELSE <<>>)
        \o (IF sawOffsets /\ valid /\ r.wrOff < r.rdOff
                 /\ U(U(wrapper.Size - r.rdOff) + r.wrOff) > maxRTTReadSize
             THEN <<308>> ELSE <<>>)
        \o (IF sawOffsets /\ r.err = "" /\ r.data # <<>> /\ r.wrote = -1
             THEN <<339>> ELSE <<>>)

\* the "serial-data" events one round of jlinkReadLoop emits, in order: the
\* log callback OpenJLink gave the wrapper emits each message while ReadRTT
\* runs, then the loop emits the data when "len(data) > 0"
SerialData(r) ==
    [i \in 1..Len(PollLog(r)) |-> Event("log", <<PollLog(r)[i]>>)]
    \o (IF r.op = "ReadRTT" /\ r.err = "" /\ r.data # <<>>
        THEN <<Event("ReadRTT", r.data)>> ELSE <<>>)

\* C27: the "serial-data" events of a round of the RTT read task are one
\* event with the bytes the poll returned when it returned some without an
\* error, and none otherwise: no event carries bytes that were not read.
C27_DataEventsAreReads ==
    jret.op = "ReadRTT" =>
        SerialData(jret) = IF jret.err = "" /\ jret.data # <<>>
                           THEN <<Event("ReadRTT", jret.data)>> ELSE <<>>

\* what holds of it: the bytes a successful poll returned are emitted once,
\* as the last event of the round, and every other event is a log message
DataEventIsLast ==
    (jret.op = "ReadRTT" /\ jret.err = "" /\ jret.data # <<>>) =>
        /\ SerialData(jret) # <<>>
        /\ SerialData(jret)[Len(SerialData(jret))] = Event("ReadRTT", jret.data)
        /\ \A i \in 1..(Len(SerialData(jret)) - 1) : SerialData(jret)[i].from = "log"

\* ---- compareVersions (pkg/updater) ----

\* the digits version strings are written with here
VersionDigits == {"0", "1", "9"}
DigitVal(c) == CASE c = "0" -> 0 [] c = "1" -> 1 [] c = "2" -> 2 [] c = "3" -> 3
                 [] c = "4" -> 4 [] c = "5" -> 5 [] c = "6" -> 6 [] c = "7" -> 7
                 [] c = "8" -> 8 [] c = "9" -> 9 [] OTHER -> -1
\* the largest int
MaxInt == 2 ^ (IntBits - 1) - 1

\* strings.TrimPrefix(s, "v")
TrimPrefix(s) == IF Len(s) > 0 /\ s[1] = "v" THEN Tail(s) ELSE s

\* strings.Split(s, "."): the pieces between the dots, one piece (empty)
\* for the empty string
RECURSIVE Split(_)
Split(s) ==
    IF \A i \in 1..Len(s) : s[i] # "."
    THEN <<s>>
    ELSE LET d == CHOOSE i \in 1..Len(s) : s[i] = "." /\ \A j \in 1..(i - 1) : s[j] # "."
         IN  <<SubSeq(s, 1, d - 1)>> \o Split(SubSeq(s, d + 1, Len(s)))

\* the number the digits of p spell, read from the left
RECURSIVE Decimal(_)
Decimal(p) ==
    IF p = <<>> THEN 0
    ELSE 10 * Decimal(SubSeq(p, 1, Len(p) - 1)) + DigitVal(p[Len(p)])

\* strconv.Atoi(p): an error for the empty string, for a character that is
\* no digit and for a value that does not fit an int
Atoi(p) ==
    IF p = <<>> \/ \E i \in 1..Len(p) : DigitVal(p[i]) < 0
    THEN [n |-> 0, err |-> "syntax"]
    ELSE IF Decimal(p) > MaxInt
    THEN [n |-> MaxInt, err |-> "range"]
    ELSE [n |-> Decimal(p), err |-> ""]

\* "n, err := strconv.Atoi(part); if err != nil { n = 0 }"
PartValue(p) == IF Atoi(p).err # "" THEN 0 ELSE Atoi(p).n

\* "for len(parts) < maxLen { parts = append(parts, "0") }"
Pad(parts, maxLen) ==
    parts \o [i \in 1..(maxLen - Len(parts)) |-> <<"0">>]

\* the loop over the components from index i on
RECURSIVE CompareFrom(_, _, _)
CompareFrom(parts1, parts2, i) ==
    IF i > Len(parts1) THEN 0
    ELSE IF PartValue(parts1[i]) < PartValue(parts2[i]) THEN -1
    ELSE IF PartValue(parts1[i]) > PartValue(parts2[i]) THEN 1
    ELSE CompareFrom(parts1, parts2, i + 1)

compareVersions(a, b) ==
    LET parts1 == Split(TrimPrefix(a))
        parts2 == Split(TrimPrefix(b))
        maxLen == IF Len(parts2) > Len(parts1) THEN Len(parts2) ELSE Len(parts1)
    IN  CompareFrom(Pad(parts1, maxLen), Pad(parts2, maxLen), 1)

\* the components: 1..MaxDigits digits
Components == UNION {[1..n -> VersionDigits] : n \in 1..MaxDigits}
\* components joined with dots
RECURSIVE Join(_)
Join(parts) ==
    IF Len(parts) = 1 THEN parts[1]
    ELSE parts[1] \o <<".">> \o Join(Tail(parts))
\* the version strings of n components: dot-separated non-negative
\* integers, with or without the leading v
Versions(n) ==
    {Join(parts) : parts \in [1..n -> Components]} \cup
    {<<"v">> \o Join(parts) : parts \in [1..n -> Components]}

InitVersions ==
    /\ NewApp /\ NoJLink
    /\ \E m, n \in 1..MaxParts : v1 \in Versions(m) /\ v2 \in Versions(n)
    /\ cmp = NoCmp

\* the call returns
CompareVersions ==
    /\ ~cmp.called
    /\ cmp' = [called |-> TRUE, ret |-> compareVersions(v1, v2)]
    /\ UNCHANGED <<v1, v2>>

NextVersions ==
    \/ CompareVersions /\ UNCHANGED <<appAll, jlinkVars>>

SpecVersions == InitVersions /\ [][NextVersions]_vars

\* the components of a version string as numbers, however many digits
RECURSIVE Numbers(_)
Numbers(s) ==
    IF \A i \in 1..Len(s) : s[i] # "."
    THEN <<Decimal(s)>>
    ELSE LET d == CHOOSE i \in 1..Len(s) : s[i] = "." /\ \A j \in 1..(i - 1) : s[j] # "."
         IN  <<Decimal(SubSeq(s, 1, d - 1))>> \o Numbers(SubSeq(s, d + 1, Len(s)))
VersionNumbers(s) == Numbers(IF s[1] = "v" THEN Tail(s) ELSE s)
\* component i of ns, 0 beyond its end
At(ns, i) == IF i <= Len(ns) THEN ns[i] ELSE 0
\* the order of two versions: by the first component in which they
\* differ, the shorter one padded with zeros
Order(m, n) ==
    LET len == IF Len(m) > Len(n) THEN Len(m) ELSE Len(n)
        diff == {i \in 1..len : At(m, i) # At(n, i)}
        first == CHOOSE i \in diff : \A j \in diff : i <= j
    IN  IF diff = {} THEN 0
        ELSE IF At(m, first) < At(n, first) THEN -1 ELSE 1

\* C28: for version strings made of dot-separated non-negative integers
\* with an optional leading v, compareVersions returns -1, 0 or 1 as the
\* numeric order of the components from the left, the shorter version
\* padded with zeros.
C28_CompareVersionsIsNumeric ==
    cmp.called => cmp.ret = Order(VersionNumbers(v1), VersionNumbers(v2))

\* every component of the version string fits an int
InIntRange(s) == \A i \in 1..Len(VersionNumbers(s)) : VersionNumbers(s)[i] <= MaxInt

\* what holds of it: the same, when every component fits an int
CompareWithinIntRange ==
    (cmp.called /\ InIntRange(v1) /\ InIntRange(v2)) =>
        cmp.ret = Order(VersionNumbers(v1), VersionNumbers(v2))

\* C29: Close clears isConnected in the step that takes the lock, which
\* closes no channel and no handle; the step that closes the stop channel
\* and the step that closes the handles come after it, and both are taken
\* with the flag false before and after. Nothing else clears the flag or
\* closes a stop channel.
C29_FlagClearedFirst ==
    [][ /\ closePc = "signal" => (~isConnected /\ ~isConnected')
        /\ closePc = "teardown" => (~isConnected /\ ~isConnected')
        /\ closePc = "" =>
              /\ chClosed' = chClosed
              /\ mutex' # 0 => (closePc' = "signal" /\ ~isConnected' /\ hClosedBy' = hClosedBy)
              /\ (isConnected /\ ~isConnected') => mutex' # 0
      ]_vars

\* a caller's Close has cleared the flag and closed the stop channel, and
\* the handle it is about to close is still open with its task running
C29_Witness ==
    /\ closePc = "teardown" /\ mutex = -1 /\ ~isConnected
    /\ readStopChan # 0 /\ chClosed[readStopChan] = 1
    /\ \E h \in CloseTargets : Live(h) /\ tpc[h] \notin {"none", "done"}

\* where a task stands while it is blocked in Read, ReadFrom, Accept or
\* a poll of the probe
InRead == {"rl_read", "udp_read", "acc_accept", "peer_read", "jl_rtt"}
\* where it is about to read a.readStopChan (the select) or a.isConnected
\* (the test after a failed read)
AtFlagOrChannel == {"rl_select", "rl_err", "udp_select", "udp_err",
                    "acc_select", "jl_select"}
\* where it is about to read or change a handle field
AtHandleField == {"udp_adopt", "acc_install", "jl_fetch"}
\* task h takes a step from where it stands
Steps(h) == tpc'[h] # tpc[h]

\* C30: a task blocked in a read does not hold the mutex, and each step in
\* which a task reads or changes isConnected, readStopChan or a handle
\* field is made with the mutex, so never while another holds it.
C30_TasksUseLock ==
    [][ \A h \in Handles :
          /\ tpc[h] \in InRead => mutex # h
          /\ (Steps(h) /\ tpc[h] \in AtHandleField) => mutex = 0
          /\ (Steps(h) /\ tpc[h] \in AtFlagOrChannel) => mutex = 0 ]_vars

\* what holds of it: no task holds the mutex while blocked in a read, and
\* the handle fields are read and changed by the tasks with the mutex
HandleFieldsUnderLock ==
    [][ \A h \in Handles :
          /\ tpc[h] \in InRead => mutex # h
          /\ (Steps(h) /\ tpc[h] \in AtHandleField) => mutex = 0
          /\ (Steps(h) /\ tpc[h] = "peer_read") => mutex = 0 ]_vars

\* ---- the empty ring ----

\* C31: a poll that read a write offset equal to the read offset, both below
\* the size, returned no data and no error, issued no read of the data
\* region, called nothing but JLINK_ReadMem and wrote nothing to the target:
\* the read offset in target memory is the one it read.
C31_EqualOffsetsNoData ==
    (Polled /\ jret.wrOff = jret.rdOff /\ jret.wrOff < wrapper.Size) =>
        /\ jret.err = "" /\ jret.data = <<>>
        /\ jret.reads = <<>>
        /\ jret.sym = {"JLINK_ReadMem"}
        /\ jret.wrote = -1 /\ target.RdOff = jret.rdOff

\* a poll has found the ring empty at an offset other than 0 and left the
\* target as it was
C31_Witness ==
    /\ Polled /\ jret.err = "" /\ jret.data = <<>>
    /\ jret.wrOff = jret.rdOff /\ jret.wrOff > 0 /\ jret.wrOff < wrapper.Size
    /\ target.RdOff = jret.rdOff /\ target.WrOff = jret.wrOff

\* ---- the automatic close of a read task ----

\* C32: the Close a read task calls after its read error closes the
\* connection the task was started for: when task h takes the lock for it,
\* h is the current connection and its stop channel the current one, and the
\* teardown it runs closes no resource but h.
C32_AutoCloseOwnConnection ==
    [][ \A h \in Conns :
          /\ (mutex = 0 /\ mutex' = h) => (CurrentHandle = h /\ readStopChan = h)
          /\ (mutex = h /\ closePc = "teardown") =>
                \A g \in Handles : hClosedBy'[g] # hClosedBy[g] => g = h
      ]_vars

\* ---- the poll task and the released wrapper ----

\* C33: the RTT poll task calls ReadRTT only on a wrapper that nobody has
\* closed: at the step in which task h makes the call, the wrapper it
\* fetched has not been handed to JLinkWrapper.Close.
C33_NoReadRTTAfterClose ==
    [][ \A h \in Conns :
          (tpc[h] = "jl_rtt" /\ tpc'[h] # "jl_rtt") => hClosedBy[tLocal[h]] = "none"
      ]_vars

\* what holds: the wrapper is open when the task fetches it under the lock
FetchedWrapperIsOpen ==
    [][ \A h \in Conns :
          (tpc[h] = "jl_fetch" /\ tpc'[h] = "jl_rtt") => hClosedBy[tLocal'[h]] = "none"
      ]_vars

\* ---- the acceptor and Close ----

\* C34: a connection accepted by the listener of a TCP-server session is
\* installed as the current peer only during that session: at the step in
\* which acceptor h installs it, h is the current listener and open and
\* the manager is connected as TCP server; so a peer is current only while
\* a listener is.
C34_NoInstallAfterClose ==
    [][ /\ \A h \in Conns :
              (tpc[h] = "acc_install" /\ tpc'[h] # "acc_install") =>
                  /\ isConnected /\ connType = TypeTcpServer
                  /\ netListener = h /\ hClosedBy[h] = "none"
        /\ (netConn' \in Peers /\ mutex' = 0) => netListener' # 0
      ]_vars

\* what holds: the acceptor accepts only from a listener nobody has closed,
\* and installs what it accepted at its next step
AcceptedFromOpenListener ==
    [][ \A h \in Conns :
          (tpc[h] = "acc_accept" /\ tpc'[h] = "acc_install") =>
              (hClosedBy[h] = "none" /\ tLocal'[h] \in Peers)
      ]_vars

\* ---- the stop channel ----

\* C35: no stop channel is closed twice: a step that closes one closes the
\* channel a.readStopChan holds, once, and that channel was open; and every
\* Open* that succeeds puts a channel into a.readStopChan that no earlier
\* Open* has made and nobody has closed.
C35_StopChannelClosedOnce ==
    [][ /\ chClosed' # chClosed =>
              /\ readStopChan # 0 /\ chClosed[readStopChan] = 0
              /\ chClosed' = [chClosed EXCEPT ![readStopChan] = 1]
        /\ (Returns({"Open"}) /\ ret'.res = "Success") =>
              /\ nConns' = nConns + 1 /\ readStopChan' = nConns'
              /\ chClosed'[readStopChan'] = 0
      ]_vars

\* two connections have come and gone, the first closed by its read task
\* after a read error, the second by the caller: each channel closed once
C35_Witness ==
    /\ ~isConnected /\ mutex = 0 /\ readStopChan = 2
    /\ chClosed[1] = 1 /\ hClosedBy[1] = "task"
    /\ chClosed[2] = 1 /\ hClosedBy[2] = "caller"

\* ---- the read offset written back ----

\* the ring distance from offset a to offset b
RingDistance(a, b, bufSize) == (b - a + bufSize) % bufSize

\* C36: a poll that read a valid pair of unequal offsets and returned data
\* writes back a read offset below the size, the number of bytes it returns
\* is the ring distance from the old read offset to the new one, and when
\* no more is pending than the cap the new read offset is the write offset.
C36_ReadOffsetAdvances ==
    (PolledData /\ jret.wrote # -1) =>
        /\ jret.wrote < wrapper.Size
        /\ Len(jret.data) = RingDistance(jret.rdOff, jret.wrote, wrapper.Size)
        /\ Pending <= maxRTTReadSize => jret.wrote = jret.wrOff

\* what holds: all of it when neither size + wrOff nor rdOff + maxRTTReadSize
\* leaves the word, and in every case the offset written back is below the
\* size
ReadOffsetAdvancesBelowOverflow ==
    (PolledData /\ jret.wrote # -1) =>
        /\ jret.wrote < wrapper.Size
        /\ (wrapper.Size + jret.wrOff < Uint /\ jret.rdOff + maxRTTReadSize < Uint) =>
              /\ Len(jret.data) = RingDistance(jret.rdOff, jret.wrote, wrapper.Size)
              /\ Pending <= maxRTTReadSize => jret.wrote = jret.wrOff

\* ---- the cached discovery state ----

\* the control-block address and descriptor size the wrapper held when
\* initSoftRTT was entered (useSoftRTT tells the two callers apart:
\* initSoftRTT does not touch it)
CacheAtCall == IF wrapper.useSoftRTT
               THEN <<Discovered.rttControlBlk, Discovered.Size>>
               ELSE <<NewWrapper(Symbols).rttControlBlk, NewWrapper(Symbols).Size>>

\* C37: when initSoftRTT has returned an error, the cached control-block
\* address and the cached descriptor are what they were when it was called.
C37_FailedInitKeepsCache ==
    (jpc = "scanned" /\ jret.err # "") =>
        <<wrapper.rttControlBlk, wrapper.Size>> = CacheAtCall

\* what holds: a scan that finds no signature leaves both as they were, and
\* no failed call changes the descriptor
NotFoundKeepsCache ==
    (jpc = "scanned" /\ jret.err # "") =>
        /\ wrapper.Size = CacheAtCall[2]
        /\ jret.err = "control block not found" =>
              wrapper.rttControlBlk = CacheAtCall[1]

\* ---- no division by zero, no empty read ----

\* C38: a poll on a descriptor of size 0 is rejected by the bounds test
\* whatever offsets it read, before any data-region read and before the
\* modulo; every data-region read a poll issues has a length of at least 1
\* (the address of the chunk's first element is taken); and a poll that got
\* past the modulo to the write-back had a size above 0.
C38_NoZeroSizeNoEmptyRead ==
    /\ (Polled /\ wrapper.Size = 0) =>
          /\ jret.err = "RTT offset out of bounds"
          /\ jret.reads = <<>> /\ jret.wrote = -1
    /\ \A i \in 1..Len(jret.reads) : jret.reads[i][2] >= 1
    /\ "JLINK_WriteMem" \in jret.sym => wrapper.Size > 0

\* a poll has read a wrapped ring in two segments, the second of one byte,
\* and has written the new read offset back
C38_Witness ==
    /\ PolledData /\ jret.wrOff < jret.rdOff
    /\ Len(jret.reads) = 2 /\ jret.reads[2] = <<0, 1>>
    /\ jret.wrote = 1

\* ---- the end of a peer's read task ----

\* C39: outside Close, a.netConn is cleared only by the read task of the
\* very connection it holds, at the step that ends that task; and the step
\* that ends a peer's read task closes nothing and leaves a.netConn alone
\* when it holds another connection.
C39_PeerEndClearsOnlyOwn ==
    [][ /\ (netConn # 0 /\ netConn' = 0 /\ closePc = "") =>
              (tpc[netConn] = "peer_read" /\ tpc'[netConn] = "done")
        /\ (netConn' # netConn \/ hClosedBy' # hClosedBy) =>
              \A c \in Peers :
                  (tpc[c] = "peer_read" /\ tpc'[c] = "done") =>
                      (hClosedBy' = hClosedBy /\ netConn = c)
      ]_vars

\* the read task of a superseded peer has ended while the peer accepted
\* after it is current and open
C39_Witness ==
    /\ isConnected /\ connType = TypeTcpServer
    /\ \E c, d \in Peers :
          /\ c # d /\ tpc[c] = "done" /\ hClosedBy[c] = "task"
          /\ netConn = d /\ hClosedBy[d] = "none" /\ tpc[d] = "peer_read"

\* ---- the lock ----

\* task h stands at a mutex.Lock()
AtLock(h) == tpc[h] \in {"close", "udp_adopt", "acc_install", "jl_fetch"}

\* C40: the lock is held only by a Close on its way, which can always take
\* its next step whatever the tasks are doing, and releases the lock at its
\* second; a task that holds it is the one inside the Close it called, so
\* no task calls Close with the lock held; and when the lock is free and no
\* call is returning, every task that stands at a Lock can take it.
C40_NoDeadlock ==
    /\ mutex # 0 =>
          /\ closePc \in {"signal", "teardown"}
          /\ mutex \in Handles => tpc[mutex] = "inclose"
          /\ ENABLED (Ready /\ (CloseSignal \/ CloseTeardown(FALSE)))
    /\ (mutex = 0 /\ Ready) =>
          /\ closePc = ""
          /\ \A h \in Handles :
                /\ tpc[h] # "inclose"
                /\ AtLock(h) => ENABLED TaskStep(h)

\* a read task is inside the Close it called after its read error, with the
\* stop channel closed and the handles still to close, while another task
\* stands at a Lock
C40_Witness ==
    /\ mutex \in Handles /\ closePc = "teardown" /\ tpc[mutex] = "inclose"
    /\ \E h \in Handles : h # mutex /\ AtLock(h)

\* under fair scheduling: a held lock is released, and every task that
\* stands at a Lock gets past it
LockWaitersGetLock ==
    /\ [](mutex # 0 => <>(mutex = 0))
    /\ \A h \in Handles : [](AtLock(h) => <>(~AtLock(h)))

====
